---- MODULE Spec2Model ----
(***************************************************************************)
(* TALE-the-rpg: the grid movement and collision core (GridRoom, Map,      *)
(* Player) and the Game handlers that drive it.                            *)
(*                                                                         *)
(* Numbers.  The source computes positions in f32 pixels.  Here a length   *)
(* is an integer number of hundredths of a pixel (Px(32) is one tile), and *)
(* a delta time is an integer number of milliseconds, so that              *)
(* speed * dt = 160 px/s * dt ms = 16 * dt hundredths of a pixel.  Every   *)
(* comparison of a magnitude (a square root in the source) is made on the  *)
(* squares, which is exact.                                                *)
(***************************************************************************)
EXTENDS Integers, Sequences, FiniteSets, TLC

VARIABLES
    rooms,          \* Map.rooms: the sequence of rooms, each a grid of tiles
    current,        \* Map.current: index of the active room (0-based)
    player,         \* the Player: position, target, moving, facing
    branch,         \* the path the last Player.update took through its body
    ticks,          \* the number of frames spent, where the specification bounds it
    state,          \* Game.state
    intro_index,    \* Intro.index
    intro_timer,    \* Intro.timer, in milliseconds
    ret,            \* the last call made on a room and its result
    args,           \* the arguments the room specification calls the room with
    enemies,        \* Game.enemies: the sequence of enemies
    options,        \* Game.options: the options menu
    limiter,        \* Game.frame_limiter_accumulator, in microseconds
    running         \* the process has not called std::process::exit

vars == <<rooms, current, player, branch, ticks, state, intro_index, intro_timer, ret, args,
          enemies, options, limiter, running>>

(***************************************************************************)
(* Arithmetic of the source                                                *)
(***************************************************************************)
Px(n) == n * 100

TILE_SIZE == Px(32)

\* Map::new builds one GridRoom::new(20, 15)
MapWidth == 20

MapHeight == 15

\* the number of direction keys held at once
MaxHeld == 1

\* the number of frames of the fine-grained specification
MaxTicks == 5

\* Player.speed, in pixels per second
speed == 160

\* the literals 0.5 and 0.1 of player.rs
HalfPx == Px(1) \div 2

TenthPx == Px(1) \div 10

Abs(v) == IF v < 0 THEN -v ELSE v

Min(a, b) == IF a < b THEN a ELSE b

Max(a, b) == IF a > b THEN a ELSE b

\* (v / TILE_SIZE).floor()
FloorTile(v) == v \div TILE_SIZE

\* (v / TILE_SIZE).round(): f32::round rounds half away from zero
RoundTile(v) ==
    IF v >= 0 THEN (v + TILE_SIZE \div 2) \div TILE_SIZE
    ELSE -((-v + TILE_SIZE \div 2) \div TILE_SIZE)

\* (v / TILE_SIZE) as isize: a float-to-integer cast truncates toward zero
TruncTile(v) ==
    IF v >= 0 THEN v \div TILE_SIZE ELSE -((-v) \div TILE_SIZE)

\* a float-to-usize cast saturates at 0
AsUsize(n) == Max(0, n)

\* f32::signum: 1.0 for +0.0 and every positive number, -1.0 for negatives
Signum(v) == IF v < 0 THEN -1 ELSE 1

Pt(a, b) == [x |-> a, y |-> b]

\* the square of (a - b).magnitude()
MagSq(a, b) == (a.x - b.x) * (a.x - b.x) + (a.y - b.y) * (a.y - b.y)

(***************************************************************************)
(* rooms/grid_room.rs                                                      *)
(***************************************************************************)
Tile == {"Floor", "Wall", "DoorClosed", "DoorOpen", "Bed", "Fwall", "Table"}

Height(tiles) == Len(tiles)

Width(tiles) == IF Len(tiles) > 0 THEN Len(tiles[1]) ELSE 0

\* self.tiles[ty][tx]
TileAt(tiles, tx, ty) == tiles[ty + 1][tx + 1]

\* GridRoom::new; the assignments of the constructor in reverse order, since
\* a later assignment overwrites an earlier one
GridRoom_new(width, height) ==
    [r \in 1..height |-> [c \in 1..width |->
        LET x == c - 1
            y == r - 1
            nook == width > 3 /\ height > 4
        IN  IF nook /\ height >= 5 /\ y = height - 5 /\ x \in {1, 2} THEN "Table"
            ELSE IF nook /\ x \in {1, 2} /\ y \in {height - 4, height - 3} THEN "Bed"
            ELSE IF nook /\ x \in {1, 2} /\ y = height - 2 THEN "Fwall"
            ELSE IF y = 0 /\ x = width \div 2 THEN "DoorClosed"
            ELSE IF x = 0 \/ x = width - 1 \/ y = 0 \/ y = height - 1 THEN "Wall"
            ELSE "Floor"]]

width_pixels(tiles) == Width(tiles) * TILE_SIZE

height_pixels(tiles) == Height(tiles) * TILE_SIZE

\* interact_tile without the DoorOpen arm: an open door stays open
interact_tile_open_only(tiles, tx, ty) ==
    IF ty >= Height(tiles) \/ tx >= Width(tiles) THEN [tiles |-> tiles, ret |-> FALSE]
    ELSE IF TileAt(tiles, tx, ty) = "DoorClosed"
         THEN [tiles |-> [tiles EXCEPT ![ty + 1][tx + 1] = "DoorOpen"], ret |-> TRUE]
    ELSE [tiles |-> tiles, ret |-> FALSE]

\* the grid after interact_tile(tx, ty), and the value it returns
interact_tile(tiles, tx, ty) ==
    IF ty >= Height(tiles) \/ tx >= Width(tiles) THEN [tiles |-> tiles, ret |-> FALSE]
    ELSE IF TileAt(tiles, tx, ty) = "DoorClosed"
         THEN [tiles |-> [tiles EXCEPT ![ty + 1][tx + 1] = "DoorOpen"], ret |-> TRUE]
    ELSE IF TileAt(tiles, tx, ty) = "DoorOpen"
         THEN [tiles |-> [tiles EXCEPT ![ty + 1][tx + 1] = "DoorClosed"], ret |-> TRUE]
    ELSE [tiles |-> tiles, ret |-> FALSE]

\* TILE_SIZE * 0.08
frame_thickness == (TILE_SIZE * 8) \div 100

IsJointWall(tiles, tx, ty) == TileAt(tiles, tx, ty) \in {"Wall", "DoorClosed"}

\* the orientation is_rect_free infers for the open door at (txu, tyu)
door_is_horizontal(tiles, txu, tyu) ==
    LET height == Height(tiles)
        width == Width(tiles)
        l == IF txu > 0 /\ IsJointWall(tiles, txu - 1, tyu) THEN 1 ELSE 0
        r == IF txu + 1 < width /\ IsJointWall(tiles, txu + 1, tyu) THEN 1 ELSE 0
        u == IF tyu > 0 /\ IsJointWall(tiles, txu, tyu - 1) THEN 1 ELSE 0
        d == IF tyu + 1 < height /\ IsJointWall(tiles, txu, tyu + 1) THEN 1 ELSE 0
    IN  l + r >= u + d

\* the DoorOpen arm of is_rect_free: does the frame of the door block the rectangle
door_frame_blocks(tiles, txu, tyu, x, y, w, h) ==
    LET door_left == txu * TILE_SIZE
        door_right == (txu + 1) * TILE_SIZE
        door_top == tyu * TILE_SIZE
        door_bottom == (tyu + 1) * TILE_SIZE
    IN  IF door_is_horizontal(tiles, txu, tyu)
        THEN \/ (y < door_top + frame_thickness /\ y + h > door_top)
             \/ (y < door_bottom /\ y + h > door_bottom - frame_thickness)
        ELSE \/ (x < door_left + frame_thickness /\ x + w > door_left)
             \/ (x < door_right /\ x + w > door_right - frame_thickness)

\* cell_blocks without the bounds check of the indices: a cell past the last
\* row or column blocks nothing
cell_blocks_unbounded(tiles, tx, ty, x, y, w, h) ==
    IF ty < 0 \/ tx < 0 THEN TRUE
    ELSE IF ty >= Height(tiles) \/ tx >= Len(tiles[ty + 1]) THEN FALSE
    ELSE IF TileAt(tiles, tx, ty) \in {"Wall", "DoorClosed", "Fwall", "Table"} THEN TRUE
    ELSE IF TileAt(tiles, tx, ty) = "DoorOpen" THEN door_frame_blocks(tiles, tx, ty, x, y, w, h)
    ELSE FALSE

\* cell_blocks with the furniture of the bed nook (Fwall, Table) not solid
cell_blocks_bare(tiles, tx, ty, x, y, w, h) ==
    IF ty < 0 \/ tx < 0 THEN TRUE
    ELSE IF ty >= Height(tiles) \/ tx >= Len(tiles[ty + 1]) THEN TRUE
    ELSE IF TileAt(tiles, tx, ty) \in {"Wall", "DoorClosed"} THEN TRUE
    ELSE IF TileAt(tiles, tx, ty) = "DoorOpen" THEN door_frame_blocks(tiles, tx, ty, x, y, w, h)
    ELSE FALSE

\* the body of the two loops of is_rect_free: does the cell (tx, ty) make it return false
cell_blocks(tiles, tx, ty, x, y, w, h) ==
    IF ty < 0 \/ tx < 0 THEN TRUE
    ELSE IF ty >= Height(tiles) \/ tx >= Len(tiles[ty + 1]) THEN TRUE
    ELSE IF TileAt(tiles, tx, ty) \in {"Wall", "DoorClosed", "Fwall", "Table"} THEN TRUE
    ELSE IF TileAt(tiles, tx, ty) = "DoorOpen" THEN door_frame_blocks(tiles, tx, ty, x, y, w, h)
    ELSE FALSE

\* is_rect_free over the tiles the rectangle has area in: an edge exactly on
\* a tile boundary does not reach the next tile
is_rect_free_exclusive(tiles, x, y, w, h) ==
    IF x < 0 \/ y < 0 THEN FALSE
    ELSE LET left == FloorTile(x)
             right == IF (x + w) % TILE_SIZE = 0 /\ w > 0 THEN FloorTile(x + w) - 1
                      ELSE FloorTile(x + w)
             top == FloorTile(y)
             bottom == IF (y + h) % TILE_SIZE = 0 /\ h > 0 THEN FloorTile(y + h) - 1
                       ELSE FloorTile(y + h)
         IN  \A ty \in top..bottom : \A tx \in left..right :
                 ~cell_blocks(tiles, tx, ty, x, y, w, h)

\* the loops return false at the first blocking cell and true when there is none
is_rect_free(tiles, x, y, w, h) ==
    IF x < 0 \/ y < 0 THEN FALSE
    ELSE LET left == FloorTile(x)
             right == FloorTile(x + w)
             top == FloorTile(y)
             bottom == FloorTile(y + h)
         IN  \A ty \in top..bottom : \A tx \in left..right :
                 ~cell_blocks(tiles, tx, ty, x, y, w, h)

is_solid_at_point(tiles, x, y) == is_rect_free(tiles, x, y, Px(1), Px(1)) = FALSE

\* can_interact_tile with the eight neighbours and the cell itself in reach
can_interact_tile_around(tiles, tx, ty, player_tx, player_ty) ==
    IF ty >= Height(tiles) \/ tx >= Width(tiles) THEN FALSE
    ELSE IF TileAt(tiles, tx, ty) \in {"DoorClosed", "DoorOpen"}
         THEN Abs(tx - player_tx) <= 1 /\ Abs(ty - player_ty) <= 1
    ELSE FALSE

can_interact_tile(tiles, tx, ty, player_tx, player_ty) ==
    IF ty >= Height(tiles) \/ tx >= Width(tiles) THEN FALSE
    ELSE IF TileAt(tiles, tx, ty) \in {"DoorClosed", "DoorOpen"}
         THEN LET dx == Abs(tx - player_tx)
                  dy == Abs(ty - player_ty)
              IN  (dx = 1 /\ dy = 0) \/ (dx = 0 /\ dy = 1)
    ELSE FALSE

is_on_top_bed_tile(tiles, x, y) ==
    LET tx == AsUsize(FloorTile(x))
        ty == AsUsize(FloorTile(y))
        height == Height(tiles)
    IN  IF height >= 4 /\ tx >= 1 /\ tx <= 2
        THEN ty = height - 4 \/ ty = height - 3
        ELSE FALSE

is_bed_door_tile(tiles, x, y) ==
    LET tx == AsUsize(FloorTile(x))
        ty == AsUsize(FloorTile(y))
        height == Height(tiles)
    IN  IF height >= 4 /\ tx = 2
        THEN ty = height - 4 \/ ty = height - 3
        ELSE FALSE

\* is_movement_allowed with the bed entered from either side
is_movement_allowed_any_entry(tiles, from_x, from_y, to_x, to_y, w, h) ==
    LET from_on_bed == is_on_top_bed_tile(tiles, from_x, from_y)
        to_on_bed == is_on_top_bed_tile(tiles, to_x, to_y)
        from_ty == AsUsize(FloorTile(from_y))
        height == Height(tiles)
    IN  IF ~is_rect_free(tiles, to_x, to_y, w, h) THEN FALSE
        ELSE IF from_on_bed /\ ~to_on_bed /\ to_y < from_y
                /\ height >= 4 /\ from_ty = height - 4 THEN FALSE
        ELSE IF ~from_on_bed /\ to_on_bed
             THEN is_bed_door_tile(tiles, to_x, to_y)
        ELSE IF from_on_bed /\ ~to_on_bed
             THEN to_x > from_x /\ is_bed_door_tile(tiles, from_x, from_y)
        ELSE TRUE

\* is_movement_allowed without the rule of the topmost bed row
is_movement_allowed_no_top_rule(tiles, from_x, from_y, to_x, to_y, w, h) ==
    LET from_on_bed == is_on_top_bed_tile(tiles, from_x, from_y)
        to_on_bed == is_on_top_bed_tile(tiles, to_x, to_y)
    IN  IF ~is_rect_free(tiles, to_x, to_y, w, h) THEN FALSE
        ELSE IF ~from_on_bed /\ to_on_bed
             THEN to_x < from_x /\ is_bed_door_tile(tiles, to_x, to_y)
        ELSE IF from_on_bed /\ ~to_on_bed
             THEN to_x > from_x /\ is_bed_door_tile(tiles, from_x, from_y)
        ELSE TRUE

is_movement_allowed(tiles, from_x, from_y, to_x, to_y, w, h) ==
    LET from_on_bed == is_on_top_bed_tile(tiles, from_x, from_y)
        to_on_bed == is_on_top_bed_tile(tiles, to_x, to_y)
        from_ty == AsUsize(FloorTile(from_y))
        height == Height(tiles)
    IN  IF ~is_rect_free(tiles, to_x, to_y, w, h) THEN FALSE
        ELSE IF from_on_bed /\ ~to_on_bed /\ to_y < from_y
                /\ height >= 4 /\ from_ty = height - 4 THEN FALSE
        ELSE IF ~from_on_bed /\ to_on_bed
             THEN to_x < from_x /\ is_bed_door_tile(tiles, to_x, to_y)
        ELSE IF from_on_bed /\ ~to_on_bed
             THEN to_x > from_x /\ is_bed_door_tile(tiles, from_x, from_y)
        ELSE TRUE

(***************************************************************************)
(* map.rs: every query and mutation is forwarded to rooms[current]         *)
(***************************************************************************)
Map_new == <<GridRoom_new(MapWidth, MapHeight)>>

Map_is_solid_at_point(x, y) == is_solid_at_point(rooms[current + 1], x, y)

Map_is_rect_free(x, y, w, h) == is_rect_free(rooms[current + 1], x, y, w, h)

Map_width_pixels == width_pixels(rooms[current + 1])

Map_height_pixels == height_pixels(rooms[current + 1])

\* Map.interact_tile forwarded to the first room instead of rooms[current]
Map_interact_tile_first(tx, ty) ==
    LET r == interact_tile(rooms[1], tx, ty)
    IN  [rooms |-> [rooms EXCEPT ![1] = r.tiles], ret |-> r.ret]

\* the rooms after Map.interact_tile(tx, ty), and the value it returns
Map_interact_tile(tx, ty) ==
    LET r == interact_tile(rooms[current + 1], tx, ty)
    IN  [rooms |-> [rooms EXCEPT ![current + 1] = r.tiles], ret |-> r.ret]

Map_can_interact_tile(tx, ty, player_tx, player_ty) ==
    can_interact_tile(rooms[current + 1], tx, ty, player_tx, player_ty)

Map_is_movement_allowed(from_x, from_y, to_x, to_y, w, h) ==
    is_movement_allowed(rooms[current + 1], from_x, from_y, to_x, to_y, w, h)

\* add_room returning the number of rooms after the push
Map_add_room_count(room) ==
    [rooms |-> Append(rooms, room), ret |-> Len(Append(rooms, room))]

\* Map::add_room: the rooms afterwards, and the index it returns
Map_add_room(room) ==
    [rooms |-> Append(rooms, room), ret |-> Len(Append(rooms, room)) - 1]

\* set_current without the test of idx against rooms.len()
Map_set_current_unchecked(idx) == idx

\* set_current that never moves the cursor
Map_set_current_ignored(idx) == current

\* Map::set_current: the cursor afterwards
Map_set_current(idx) == IF idx < Len(rooms) THEN idx ELSE current

(***************************************************************************)
(* player.rs                                                               *)
(***************************************************************************)
\* Player::new: the bed tile (2,12), facing down
Player_new ==
    [position |-> Pt(Px(64), Px(384)), target |-> Pt(Px(64), Px(384)),
     moving |-> FALSE, facing |-> <<0, 1>>]

\* self.speed * dt, for dt in milliseconds
Step(dt) == (speed * dt) \div 10

\* TILE_SIZE * 0.9
hitbox_size == (TILE_SIZE * 9) \div 10

\* (TILE_SIZE - hitbox_size) / 2.0
hitbox_offset == (TILE_SIZE - hitbox_size) \div 2

\* new_direction: the first held key in the order Left, Right, Up, Down;
\* None when input is not sampled or no direction key is held
None == <<0, 0>>

\* KeyDirection with the vertical keys tried first: Up, Down, Left, Right
KeyDirection_up_first(keys) ==
    IF "Up" \in keys THEN <<0, -1>>
    ELSE IF "Down" \in keys THEN <<0, 1>>
    ELSE IF "Left" \in keys THEN <<-1, 0>>
    ELSE IF "Right" \in keys THEN <<1, 0>>
    ELSE None

KeyDirection(keys) ==
    IF "Left" \in keys THEN <<-1, 0>>
    ELSE IF "Right" \in keys THEN <<1, 0>>
    ELSE IF "Up" \in keys THEN <<0, -1>>
    ELSE IF "Down" \in keys THEN <<0, 1>>
    ELSE None

\* the move of the hitbox allowed wherever the tile under the corner of the
\* hitbox at b is inside the grid and no Wall
HitboxMoveAllowed_walls_only(a, b) ==
    LET tx == FloorTile(b.x + hitbox_offset)
        ty == FloorTile(b.y + hitbox_offset)
    IN  /\ tx >= 0 /\ ty >= 0
        /\ ty < Height(rooms[current + 1]) /\ tx < Width(rooms[current + 1])
        /\ TileAt(rooms[current + 1], tx, ty) # "Wall"

\* map.is_movement_allowed on the inset hitbox, from position a to position b
HitboxMoveAllowed(a, b) ==
    Map_is_movement_allowed(a.x + hitbox_offset, a.y + hitbox_offset,
                            b.x + hitbox_offset, b.y + hitbox_offset,
                            hitbox_size, hitbox_size)

\* lines 215-228 without the safeguard: the clamp into the map only
ClampOnly(p, br) ==
    [position |-> Pt(Min(Max(p.position.x, 0), Map_width_pixels - TILE_SIZE),
                     Min(Max(p.position.y, 0), Map_height_pixels - TILE_SIZE)),
     target |-> p.target, moving |-> p.moving, facing |-> p.facing, branch |-> br]

\* lines 215-228: the clamp into the map, then the safeguard snap of an idle
\* player; the branch is marked "+snap" when the safeguard moved the player
ClampAndSnap(p, br) ==
    LET cx == Min(Max(p.position.x, 0), Map_width_pixels - TILE_SIZE)
        cy == Min(Max(p.position.y, 0), Map_height_pixels - TILE_SIZE)
        clamped == Pt(cx, cy)
        final_grid_pos == Pt(RoundTile(cx) * TILE_SIZE, RoundTile(cy) * TILE_SIZE)
        snapped == ~p.moving /\ MagSq(clamped, final_grid_pos) > HalfPx * HalfPx
    IN  [position |-> IF snapped THEN final_grid_pos ELSE clamped,
         target |-> p.target, moving |-> p.moving, facing |-> p.facing,
         branch |-> IF snapped THEN br \o "+snap" ELSE br]

\* MoveStep with the completing branch taken only when the step exceeds the
\* remaining distance (dist < step)
MoveStep_strict(p, dt) ==
    LET dir == Pt(p.target.x - p.position.x, p.target.y - p.position.y)
        distSq == dir.x * dir.x + dir.y * dir.y
        step == Step(dt)
        movement == IF Abs(dir.x) > Abs(dir.y)
                    THEN Pt(IF dir.x > 0 THEN step ELSE -step, 0)
                    ELSE Pt(0, IF dir.y > 0 THEN step ELSE -step)
        new_pos == Pt(p.position.x + movement.x, p.position.y + movement.y)
    IN  IF ~p.moving THEN ClampAndSnap(p, "idle")
        ELSE IF distSq <= 0
             THEN [position |-> p.position, target |-> p.target, moving |-> FALSE,
                   facing |-> p.facing, branch |-> "arrived"]
        ELSE IF distSq < step * step
             THEN IF HitboxMoveAllowed(p.position, p.target)
                  THEN ClampAndSnap([p EXCEPT !.position = p.target, !.moving = FALSE],
                                    "snap_ok")
                  ELSE ClampAndSnap([p EXCEPT !.moving = FALSE], "snap_blocked")
        ELSE IF HitboxMoveAllowed(p.position, new_pos)
             THEN ClampAndSnap([p EXCEPT !.position = new_pos], "inc_ok")
             ELSE ClampAndSnap([p EXCEPT !.moving = FALSE], "inc_blocked")

\* MoveStep with the incremental move made along both axes of the direction
MoveStep_diagonal(p, dt) ==
    LET dir == Pt(p.target.x - p.position.x, p.target.y - p.position.y)
        distSq == dir.x * dir.x + dir.y * dir.y
        step == Step(dt)
        movement == Pt(IF dir.x = 0 THEN 0 ELSE IF dir.x > 0 THEN step ELSE -step,
                       IF dir.y = 0 THEN 0 ELSE IF dir.y > 0 THEN step ELSE -step)
        new_pos == Pt(p.position.x + movement.x, p.position.y + movement.y)
    IN  IF ~p.moving THEN ClampAndSnap(p, "idle")
        ELSE IF distSq <= 0
             THEN [position |-> p.position, target |-> p.target, moving |-> FALSE,
                   facing |-> p.facing, branch |-> "arrived"]
        ELSE IF distSq <= step * step
             THEN IF HitboxMoveAllowed(p.position, p.target)
                  THEN ClampAndSnap([p EXCEPT !.position = p.target, !.moving = FALSE],
                                    "snap_ok")
                  ELSE ClampAndSnap([p EXCEPT !.moving = FALSE], "snap_blocked")
        ELSE IF HitboxMoveAllowed(p.position, new_pos)
             THEN ClampAndSnap([p EXCEPT !.position = new_pos], "inc_ok")
             ELSE ClampAndSnap([p EXCEPT !.moving = FALSE], "inc_blocked")

\* MoveStep with every move made without asking the map, returning before the
\* clamp
MoveStep_unchecked(p, dt) ==
    LET dir == Pt(p.target.x - p.position.x, p.target.y - p.position.y)
        distSq == dir.x * dir.x + dir.y * dir.y
        step == Step(dt)
        movement == IF Abs(dir.x) > Abs(dir.y)
                    THEN Pt(IF dir.x > 0 THEN step ELSE -step, 0)
                    ELSE Pt(0, IF dir.y > 0 THEN step ELSE -step)
        new_pos == Pt(p.position.x + movement.x, p.position.y + movement.y)
    IN  IF ~p.moving THEN ClampAndSnap(p, "idle")
        ELSE IF distSq <= 0
             THEN [position |-> p.position, target |-> p.target, moving |-> FALSE,
                   facing |-> p.facing, branch |-> "arrived"]
        ELSE IF distSq <= step * step
             THEN [position |-> p.target, target |-> p.target, moving |-> FALSE,
                   facing |-> p.facing, branch |-> "snap_ok"]
        ELSE [position |-> new_pos, target |-> p.target, moving |-> TRUE,
              facing |-> p.facing, branch |-> "inc_ok"]

\* lines 159-213: the motion toward the target
MoveStep(p, dt) ==
    LET dir == Pt(p.target.x - p.position.x, p.target.y - p.position.y)
        distSq == dir.x * dir.x + dir.y * dir.y
        step == Step(dt)
        movement == IF Abs(dir.x) > Abs(dir.y)
                    THEN Pt(IF dir.x > 0 THEN step ELSE -step, 0)
                    ELSE Pt(0, IF dir.y > 0 THEN step ELSE -step)
        new_pos == Pt(p.position.x + movement.x, p.position.y + movement.y)
    IN  IF ~p.moving THEN ClampAndSnap(p, "idle")
        ELSE IF distSq <= 0
             THEN [position |-> p.position, target |-> p.target, moving |-> FALSE,
                   facing |-> p.facing, branch |-> "arrived"]
        ELSE IF distSq <= step * step
             THEN IF HitboxMoveAllowed(p.position, p.target)
                  THEN ClampAndSnap([p EXCEPT !.position = p.target, !.moving = FALSE],
                                    "snap_ok")
                  ELSE ClampAndSnap([p EXCEPT !.moving = FALSE], "snap_blocked")
        ELSE IF HitboxMoveAllowed(p.position, new_pos)
             THEN ClampAndSnap([p EXCEPT !.position = new_pos], "inc_ok")
             ELSE ClampAndSnap([p EXCEPT !.moving = FALSE], "inc_blocked")

\* Player::update with the keys sampled on every tick (should_check_input
\* always true)
PlayerUpdate_always_sampled(p, keys, dt) ==
    LET current_grid_x == RoundTile(p.position.x)
        current_grid_y == RoundTile(p.position.y)
        grid_pos == Pt(current_grid_x * TILE_SIZE, current_grid_y * TILE_SIZE)
        is_at_grid_position == MagSq(p.position, grid_pos) < Px(1) * Px(1)
        new_direction == KeyDirection(keys)
        facing1 == IF new_direction # None THEN new_direction ELSE p.facing
        potential_target == Pt((current_grid_x + new_direction[1]) * TILE_SIZE,
                               (current_grid_y + new_direction[2]) * TILE_SIZE)
        current_dir == Pt(p.target.x - grid_pos.x, p.target.y - grid_pos.y)
        new_dir == Pt(potential_target.x - grid_pos.x, potential_target.y - grid_pos.y)
        is_direction_change ==
            \/ (Signum(current_dir.x) # Signum(new_dir.x) /\ Abs(current_dir.x) > TenthPx)
            \/ (Signum(current_dir.y) # Signum(new_dir.y) /\ Abs(current_dir.y) > TenthPx)
        reversal == new_direction # None /\ p.moving /\ ~is_at_grid_position
                    /\ is_direction_change
        new_target == new_direction # None
                      /\ (~p.moving \/ MagSq(p.target, potential_target)
                                         > TenthPx * TenthPx)
        p1 == [position |-> p.position,
               target |-> IF new_target THEN potential_target ELSE p.target,
               moving |-> new_target \/ p.moving,
               facing |-> facing1]
    IN  IF reversal
        THEN [position |-> grid_pos, target |-> p.target, moving |-> FALSE,
              facing |-> facing1, branch |-> "reversal"]
        ELSE MoveStep(p1, dt)

\* Player::update with the facing set only when the map accepts the step
PlayerUpdate_facing_on_accept(p, keys, dt) ==
    LET current_grid_x == RoundTile(p.position.x)
        current_grid_y == RoundTile(p.position.y)
        grid_pos == Pt(current_grid_x * TILE_SIZE, current_grid_y * TILE_SIZE)
        is_at_grid_position == MagSq(p.position, grid_pos) < Px(1) * Px(1)
        should_check_input == ~p.moving \/ is_at_grid_position
        new_direction == IF should_check_input THEN KeyDirection(keys) ELSE None
        facing1 == IF new_direction # None THEN new_direction ELSE p.facing
        potential_target == Pt((current_grid_x + new_direction[1]) * TILE_SIZE,
                               (current_grid_y + new_direction[2]) * TILE_SIZE)
        new_target == new_direction # None
                      /\ (~p.moving \/ MagSq(p.target, potential_target)
                                         > TenthPx * TenthPx)
        p1 == [position |-> p.position,
               target |-> IF new_target THEN potential_target ELSE p.target,
               moving |-> new_target \/ p.moving,
               facing |-> p.facing]
        r == MoveStep(p1, dt)
    IN  IF r.branch \in {"snap_blocked", "inc_blocked", "snap_blocked+snap", "inc_blocked+snap"}
        THEN r
        ELSE [r EXCEPT !.facing = facing1]

\* Player::update: the player after one tick with the keys `keys` held
PlayerUpdate(p, keys, dt) ==
    LET current_grid_x == RoundTile(p.position.x)
        current_grid_y == RoundTile(p.position.y)
        grid_pos == Pt(current_grid_x * TILE_SIZE, current_grid_y * TILE_SIZE)
        is_at_grid_position == MagSq(p.position, grid_pos) < Px(1) * Px(1)
        should_check_input == ~p.moving \/ is_at_grid_position
        new_direction == IF should_check_input THEN KeyDirection(keys) ELSE None
        facing1 == IF new_direction # None THEN new_direction ELSE p.facing
        potential_target == Pt((current_grid_x + new_direction[1]) * TILE_SIZE,
                               (current_grid_y + new_direction[2]) * TILE_SIZE)
        current_dir == Pt(p.target.x - grid_pos.x, p.target.y - grid_pos.y)
        new_dir == Pt(potential_target.x - grid_pos.x, potential_target.y - grid_pos.y)
        is_direction_change ==
            \/ (Signum(current_dir.x) # Signum(new_dir.x) /\ Abs(current_dir.x) > TenthPx)
            \/ (Signum(current_dir.y) # Signum(new_dir.y) /\ Abs(current_dir.y) > TenthPx)
        reversal == new_direction # None /\ p.moving /\ ~is_at_grid_position
                    /\ is_direction_change
        new_target == new_direction # None
                      /\ (~p.moving \/ MagSq(p.target, potential_target)
                                         > TenthPx * TenthPx)
        p1 == [position |-> p.position,
               target |-> IF new_target THEN potential_target ELSE p.target,
               moving |-> new_target \/ p.moving,
               facing |-> facing1]
    IN  IF reversal
        THEN [position |-> grid_pos, target |-> p.target, moving |-> FALSE,
              facing |-> facing1, branch |-> "reversal"]
        ELSE MoveStep(p1, dt)

\* Player::test_new: the tile (3,3), facing down
Player_test_new ==
    [position |-> Pt(Px(96), Px(96)), target |-> Pt(Px(96), Px(96)),
     moving |-> FALSE, facing |-> <<0, 1>>]

\* dir.normalize(), in thousandths, for a direction along an axis or along a
\* diagonal (0.707 on both axes)
Normalize(dir) ==
    LET unit(v) == IF v > 0 THEN 1 ELSE IF v < 0 THEN -1 ELSE 0
        len == IF dir[1] # 0 /\ dir[2] # 0 THEN 707 ELSE 1000
    IN  <<unit(dir[1]) * len, unit(dir[2]) * len>>

\* norm * self.speed * dt on one axis, n being in thousandths
Displacement(n, dt) ==
    IF n >= 0 THEN (n * Step(dt)) \div 1000 ELSE -(((-n) * Step(dt)) \div 1000)

\* lines 75-77: the clamp of update_with_dir
ClampIntoMap(pos) ==
    Pt(Min(Max(pos.x, 0), Map_width_pixels - Px(32)),
       Min(Max(pos.y, 0), Map_height_pixels - Px(32)))

\* update_with_dir moving without asking the map
update_with_dir_unchecked(p, dir, dt) ==
    LET norm == Normalize(dir)
        new_pos == Pt(p.position.x + Displacement(norm[1], dt),
                      p.position.y + Displacement(norm[2], dt))
    IN  IF dir = <<0, 0>>
        THEN [position |-> ClampIntoMap(p.position), target |-> p.target, moving |-> p.moving,
              facing |-> p.facing, branch |-> "dir_none"]
        ELSE [position |-> ClampIntoMap(new_pos), target |-> p.target, moving |-> p.moving,
              facing |-> p.facing, branch |-> "dir_moved"]

\* Player::update_with_dir: the player after one headless update along dir
update_with_dir(p, dir, dt) ==
    LET norm == Normalize(dir)
        new_pos == Pt(p.position.x + Displacement(norm[1], dt),
                      p.position.y + Displacement(norm[2], dt))
    IN  IF dir = <<0, 0>>
        THEN [position |-> ClampIntoMap(p.position), target |-> p.target, moving |-> p.moving,
              facing |-> p.facing, branch |-> "dir_none"]
        ELSE IF HitboxMoveAllowed(p.position, new_pos)
        THEN [position |-> ClampIntoMap(new_pos), target |-> p.target, moving |-> p.moving,
              facing |-> p.facing, branch |-> "dir_moved"]
        ELSE [position |-> ClampIntoMap(p.position), target |-> p.target, moving |-> p.moving,
              facing |-> p.facing, branch |-> "dir_rejected"]

(***************************************************************************)
(* enemy.rs                                                                *)
(***************************************************************************)
\* Enemy.speed, in pixels per second
enemy_speed == 80

\* Enemy.grid_size
grid_size == Px(32)

\* the literal 16.0 of enemy.rs: the offset of the point the map is asked about
probe_offset == Px(16)

\* Enemy::new
Enemy_new ==
    [position |-> Pt(Px(200), Px(200)), target |-> Pt(Px(200), Px(200)), moving |-> FALSE]

\* self.speed * dt, for dt in milliseconds
EnemyStep(dt) == (enemy_speed * dt) \div 10

\* lines 44-54 with the vertical axis tried first
Retarget_vertical_first(e, player_pos) ==
    LET dx == Signum(player_pos.x - e.position.x)
        dy == Signum(player_pos.y - e.position.y)
    IN  IF e.moving THEN e
        ELSE IF player_pos.y # e.position.y
             THEN [e EXCEPT !.target = Pt(e.position.x, e.position.y + dy * grid_size),
                            !.moving = TRUE]
        ELSE [e EXCEPT !.target = Pt(e.position.x + dx * grid_size, e.position.y),
                       !.moving = TRUE]

\* lines 44-54: an enemy that is not moving takes a target one grid step
\* toward the player, on the horizontal axis when dx != 0.0
Retarget(e, player_pos) ==
    LET dx == Signum(player_pos.x - e.position.x)
        dy == Signum(player_pos.y - e.position.y)
    IN  IF e.moving THEN e
        ELSE IF dx # 0
             THEN [e EXCEPT !.target = Pt(e.position.x + dx * grid_size, e.position.y),
                            !.moving = TRUE]
        ELSE IF dy # 0
             THEN [e EXCEPT !.target = Pt(e.position.x, e.position.y + dy * grid_size),
                            !.moving = TRUE]
        ELSE e

\* lines 56-74 without the probes of the map: the enemy moves wherever its
\* target lies
Advance_unprobed(e, dt) ==
    LET dir == Pt(e.target.x - e.position.x, e.target.y - e.position.y)
        distSq == dir.x * dir.x + dir.y * dir.y
        step == EnemyStep(dt)
        n == Pt(IF dir.x = 0 THEN 0 ELSE Signum(dir.x), IF dir.y = 0 THEN 0 ELSE Signum(dir.y))
        new_pos == Pt(e.position.x + n.x * step, e.position.y + n.y * step)
    IN  IF ~e.moving THEN e
        ELSE IF distSq <= step * step
             THEN [e EXCEPT !.position = e.target, !.moving = FALSE]
        ELSE [e EXCEPT !.position = new_pos]

\* lines 56-74: the motion toward the target.  dir / dist is a unit vector
\* along one axis, the target differing from the position on one axis only
\* (EnemyAxisAligned)
Advance(e, dt) ==
    LET dir == Pt(e.target.x - e.position.x, e.target.y - e.position.y)
        distSq == dir.x * dir.x + dir.y * dir.y
        step == EnemyStep(dt)
        n == Pt(IF dir.x = 0 THEN 0 ELSE Signum(dir.x), IF dir.y = 0 THEN 0 ELSE Signum(dir.y))
        new_pos == Pt(e.position.x + n.x * step, e.position.y + n.y * step)
    IN  IF ~e.moving THEN e
        ELSE IF distSq <= step * step
             THEN IF ~Map_is_solid_at_point(e.target.x + probe_offset, e.target.y + probe_offset)
                  THEN [e EXCEPT !.position = e.target, !.moving = FALSE]
                  ELSE [e EXCEPT !.moving = FALSE]
        ELSE IF ~Map_is_solid_at_point(new_pos.x + probe_offset, new_pos.y + probe_offset)
             THEN [e EXCEPT !.position = new_pos]
             ELSE [e EXCEPT !.moving = FALSE]

\* Enemy::update: the enemy after one tick with the player at player_pos
Enemy_update(e, dt, player_pos) == Advance(Retarget(e, player_pos), dt)

(***************************************************************************)
(* options.rs: the options menu                                            *)
(***************************************************************************)
\* Options::new.  The display settings fullscreen, show_fps and resolution,
\* which only the drawing code reads, are left out.
Options_new ==
    [visible |-> FALSE, view |-> "Main", selected |-> 0, scroll_offset |-> 0,
     gba_refresh_rate |-> FALSE]

\* Options::toggle
Options_toggle(o) ==
    [o EXCEPT !.visible = ~o.visible, !.view = "Main", !.selected = 0, !.scroll_offset = 0]

\* the keys that activate the selected entry
ActivateKeys == {"Return", "Space", "Z"}

\* entries of the Main view: Video, Return to Game, Exit to Desktop
last_main == 2

\* total_options of the Video view: Resolution, Fullscreen, FPS Counter, GBA
\* Refresh Rate, Back
total_options == 5

max_visible == 3

\* the Video view with the entry `selected` switched: the options afterwards
\* and the action returned to the game
SwitchEntry(o) ==
    IF o.selected = 1 THEN [options |-> o, action |-> "toggle_fullscreen"]
    ELSE IF o.selected = 2 THEN [options |-> o, action |-> "toggle_fps"]
    ELSE IF o.selected = 3
    THEN [options |-> [o EXCEPT !.gba_refresh_rate = ~o.gba_refresh_rate],
          action |-> "toggle_gba_refresh"]
    ELSE [options |-> o, action |-> "none"]

\* back to the Main view
ToMain(o) == [o EXCEPT !.view = "Main", !.selected = 0, !.scroll_offset = 0]

\* Options::handle_key with the window of the Video view left where it is
\* when the selection moves
Options_handle_key_unscrolled(o, key) ==
    IF ~o.visible THEN [options |-> o, action |-> "none"]
    ELSE IF o.view = "Main"
    THEN IF key = "Up"
         THEN [options |-> [o EXCEPT !.selected = IF @ > 0 THEN @ - 1 ELSE @], action |-> "none"]
         ELSE IF key = "Down"
         THEN [options |-> [o EXCEPT !.selected = IF @ + 1 < last_main THEN @ + 1 ELSE last_main],
               action |-> "none"]
         ELSE IF key \in ActivateKeys
         THEN IF o.selected = 0
              THEN [options |-> [o EXCEPT !.view = "Video", !.selected = 0, !.scroll_offset = 0],
                    action |-> "none"]
              ELSE IF o.selected = 1
              THEN [options |-> [o EXCEPT !.visible = FALSE], action |-> "return"]
              ELSE IF o.selected = 2 THEN [options |-> o, action |-> "exit"]
              ELSE [options |-> o, action |-> "none"]
         ELSE IF key = "Escape"
         THEN [options |-> [o EXCEPT !.visible = FALSE], action |-> "return"]
         ELSE [options |-> o, action |-> "none"]
    ELSE IF key = "Up"
         THEN [options |-> [o EXCEPT !.selected = IF @ > 0 THEN @ - 1 ELSE @], action |-> "none"]
         ELSE IF key = "Down"
         THEN [options |-> [o EXCEPT !.selected = IF @ < total_options - 1 THEN @ + 1 ELSE @],
               action |-> "none"]
         ELSE IF key \in {"Left", "Right"} THEN SwitchEntry(o)
         ELSE IF key \in ActivateKeys
         THEN IF o.selected = 4 THEN [options |-> ToMain(o), action |-> "none"]
              ELSE SwitchEntry(o)
         ELSE IF key = "Escape" THEN [options |-> ToMain(o), action |-> "none"]
         ELSE [options |-> o, action |-> "none"]

\* Options::handle_key: the options afterwards and the action returned to
\* the game ("none" for None)
Options_handle_key(o, key) ==
    IF ~o.visible THEN [options |-> o, action |-> "none"]
    ELSE IF o.view = "Main"
    THEN IF key = "Up"
         THEN [options |-> [o EXCEPT !.selected = IF @ > 0 THEN @ - 1 ELSE @], action |-> "none"]
         ELSE IF key = "Down"
         THEN [options |-> [o EXCEPT !.selected = IF @ + 1 < last_main THEN @ + 1 ELSE last_main],
               action |-> "none"]
         ELSE IF key \in ActivateKeys
         THEN IF o.selected = 0
              THEN [options |-> [o EXCEPT !.view = "Video", !.selected = 0, !.scroll_offset = 0],
                    action |-> "none"]
              ELSE IF o.selected = 1
              THEN [options |-> [o EXCEPT !.visible = FALSE], action |-> "return"]
              ELSE IF o.selected = 2 THEN [options |-> o, action |-> "exit"]
              ELSE [options |-> o, action |-> "none"]
         ELSE IF key = "Escape"
         THEN [options |-> [o EXCEPT !.visible = FALSE], action |-> "return"]
         ELSE [options |-> o, action |-> "none"]
    ELSE IF key = "Up"
         THEN IF o.selected > 0
              THEN [options |-> [o EXCEPT !.selected = @ - 1,
                                          !.scroll_offset = IF o.selected - 1 < @
                                                            THEN o.selected - 1 ELSE @],
                    action |-> "none"]
              ELSE [options |-> o, action |-> "none"]
         ELSE IF key = "Down"
         THEN IF o.selected < total_options - 1
              THEN [options |-> [o EXCEPT !.selected = @ + 1,
                                          !.scroll_offset = IF o.selected + 1 >= @ + max_visible
                                                            THEN o.selected + 1 - max_visible + 1
                                                            ELSE @],
                    action |-> "none"]
              ELSE [options |-> o, action |-> "none"]
         ELSE IF key \in {"Left", "Right"} THEN SwitchEntry(o)
         ELSE IF key \in ActivateKeys
         THEN IF o.selected = 4 THEN [options |-> ToMain(o), action |-> "none"]
              ELSE SwitchEntry(o)
         ELSE IF key = "Escape" THEN [options |-> ToMain(o), action |-> "none"]
         ELSE [options |-> o, action |-> "none"]

(***************************************************************************)
(* game.rs, intro.rs, title.rs: the handlers of the event loop             *)
(***************************************************************************)
\* Game::new gives the intro four lines
IntroLines == 4

\* Intro.auto_advance_secs, in milliseconds
auto_advance_ms == 4000

MoveKeys == {"Left", "Right", "Up", "Down"}

\* the key codes pressed where the options menu stays out of play: without X
\* options.visible keeps its initial value false
KeyCodes == {"Z", "Return", "Space", "C", "Escape", "Up", "Down", "Left", "Right"}

\* the sets of direction keys that may be held during a frame
KeySets == {ks \in SUBSET MoveKeys : Cardinality(ks) <= MaxHeld}

\* the delta times a frame may take, in milliseconds: none, 0.48 px worth of
\* motion, half a tile's worth, a little under a tile's worth (0.8 px and
\* 0.48 px short), exactly a tile's worth
DtSet == {0, 3, 100, 195, 197, 200}

\* target_frame_time = 1.0 / 59.73 seconds, in microseconds
target_frame_time == 100000000 \div 5973

\* TitleScreen::handle_input: the player pressed start
TitleScreen_handle_input(code) == code \in {"Return", "Space"}

NoCall == [fn |-> "none"]

NoArgs == [kind |-> "none"]

\* (pos + TILE_SIZE/2) / TILE_SIZE as usize: the cell the player stands on
PlayerCell(pos) ==
    Pt(AsUsize(TruncTile(pos.x + TILE_SIZE \div 2)), AsUsize(TruncTile(pos.y + TILE_SIZE \div 2)))

\* FacedCell without the facing added: the cell the player stands on
FacedCell_own(pos, f) ==
    Pt(TruncTile(pos.x + TILE_SIZE \div 2), TruncTile(pos.y + TILE_SIZE \div 2))

\* ((pos + TILE_SIZE/2) / TILE_SIZE + facing) as isize: the cell the player faces
FacedCell(pos, f) ==
    Pt(TruncTile(pos.x + TILE_SIZE \div 2 + f[1] * TILE_SIZE),
       TruncTile(pos.y + TILE_SIZE \div 2 + f[2] * TILE_SIZE))

\* key_down_event, GameState::Playing, KeyCode::Z: the rooms afterwards and
\* the interact_tile call that was made, if any
InteractKey(pos, f) ==
    LET pc == PlayerCell(pos)
        fc == FacedCell(pos, f)
        own == Map_interact_tile(pc.x, pc.y)
        faced == Map_interact_tile(fc.x, fc.y)
    IN  IF Map_can_interact_tile(pc.x, pc.y, pc.x, pc.y)
        THEN [rooms |-> own.rooms,
              ret |-> [fn |-> "interact_tile", tx |-> pc.x, ty |-> pc.y, result |-> own.ret]]
        ELSE IF fc.x >= 0 /\ fc.y >= 0 /\ Map_can_interact_tile(fc.x, fc.y, pc.x, pc.y)
        THEN [rooms |-> faced.rooms,
              ret |-> [fn |-> "interact_tile", tx |-> fc.x, ty |-> fc.y, result |-> faced.ret]]
        ELSE [rooms |-> rooms, ret |-> [fn |-> "interact_key"]]

\* Game::new
Init ==
    /\ rooms = Map_new
    /\ current = 0
    /\ player = Player_new
    /\ branch = "new"
    /\ ticks = 0
    /\ state = "Title"
    /\ intro_index = 0
    /\ intro_timer = 0
    /\ ret = NoCall
    /\ args = NoArgs
    /\ enemies = <<>>
    /\ options = Options_new
    /\ limiter = 0
    /\ running = TRUE

\* Game::key_down_event in GameState::Title, Intro and Playing, reached when
\* the options menu is hidden (lines 302-355)
StateKeyDown(code) ==
    /\ UNCHANGED <<options, limiter, running>>
    /\ IF state = "Title"
       THEN /\ IF TitleScreen_handle_input(code)
               THEN state' = "Intro" /\ intro_index' = 0 /\ intro_timer' = 0
               ELSE UNCHANGED <<state, intro_index, intro_timer>>
            /\ UNCHANGED rooms
            /\ ret' = NoCall
       ELSE IF state = "Intro"
       THEN /\ IF code = "Z"
               THEN /\ intro_index' = intro_index + 1
                    /\ intro_timer' = 0
                    /\ state' = IF intro_index + 1 >= IntroLines THEN "Playing" ELSE "Intro"
               ELSE UNCHANGED <<state, intro_index, intro_timer>>
            /\ UNCHANGED rooms
            /\ ret' = NoCall
       ELSE /\ UNCHANGED <<state, intro_index, intro_timer>>
            /\ IF code = "Z"
               THEN \E r \in {InteractKey(player.position, player.facing)} :
                        rooms' = r.rooms /\ ret' = r.ret
               ELSE UNCHANGED rooms /\ ret' = NoCall

\* Game::key_down_event with the keys going to the game although the menu is shown
KeyDown_through_menu(code) ==
    /\ running
    /\ UNCHANGED <<current, player, branch, ticks, args, enemies>>
    /\ IF code = "X"
       THEN /\ options' = Options_toggle(options)
            /\ ret' = NoCall
            /\ UNCHANGED <<rooms, state, intro_index, intro_timer, limiter, running>>
       ELSE StateKeyDown(code)

\* Game::key_down_event for the key `code`: X toggles the menu, C hides it,
\* a visible menu takes every other key, and the game state takes the rest
KeyDown(code) ==
    /\ running
    /\ UNCHANGED <<current, player, branch, ticks, args, enemies>>
    /\ IF code = "X"
       THEN /\ options' = Options_toggle(options)
            /\ ret' = NoCall
            /\ UNCHANGED <<rooms, state, intro_index, intro_timer, limiter, running>>
       ELSE IF code = "C" /\ options.visible
       THEN /\ options' = [options EXCEPT !.visible = FALSE]
            /\ ret' = NoCall
            /\ UNCHANGED <<rooms, state, intro_index, intro_timer, limiter, running>>
       ELSE IF options.visible
       THEN \E r \in {Options_handle_key(options, code)} :
                /\ options' = r.options
                /\ limiter' = IF r.action = "toggle_gba_refresh" THEN 0 ELSE limiter
                /\ running' = (r.action # "exit")
                /\ ret' = NoCall
                /\ UNCHANGED <<rooms, state, intro_index, intro_timer>>
       ELSE StateKeyDown(code)

\* the match on the game state with the player and the enemies updated during
\* the intro as well
StateUpdate_during_intro(keys, dt) ==
    IF state # "Title"
    THEN /\ \E r \in {PlayerUpdate(player, keys, dt)} :
                /\ player' = [position |-> r.position, target |-> r.target,
                              moving |-> r.moving, facing |-> r.facing]
                /\ branch' = r.branch
                /\ enemies' = [i \in DOMAIN enemies |->
                                   Enemy_update(enemies[i], dt, r.position)]
         /\ UNCHANGED <<state, intro_index, intro_timer>>
    ELSE UNCHANGED <<player, branch, enemies, state, intro_index, intro_timer>>

\* the match on self.state of Game::update (lines 164-186): Player::update and
\* then every Enemy::update in Playing, Intro::update in Intro, nothing in Title
StateUpdate(keys, dt) ==
    IF state = "Playing"
    THEN /\ \E r \in {PlayerUpdate(player, keys, dt)} :
                /\ player' = [position |-> r.position, target |-> r.target,
                              moving |-> r.moving, facing |-> r.facing]
                /\ branch' = r.branch
                /\ enemies' = [i \in DOMAIN enemies |->
                                   Enemy_update(enemies[i], dt, r.position)]
         /\ UNCHANGED <<state, intro_index, intro_timer>>
    ELSE IF state = "Intro"
    THEN /\ IF intro_timer + dt >= auto_advance_ms
            THEN /\ intro_timer' = 0
                 /\ intro_index' = intro_index + 1
                 /\ state' = IF intro_index + 1 >= IntroLines THEN "Playing" ELSE "Intro"
            ELSE /\ intro_timer' = intro_timer + dt
                 /\ UNCHANGED <<state, intro_index>>
         /\ UNCHANGED <<player, branch, enemies>>
    ELSE UNCHANGED <<player, branch, enemies, state, intro_index, intro_timer>>

\* Game::update without the early return of lines 159-162
Update_unpaused(keys, dt) ==
    /\ running
    /\ ret' = NoCall
    /\ UNCHANGED <<rooms, current, args, options, running>>
    /\ \E acc \in {limiter + dt * 1000} :
           IF options.gba_refresh_rate /\ acc < target_frame_time
           THEN /\ limiter' = acc
                /\ UNCHANGED <<player, branch, enemies, state, intro_index, intro_timer>>
           ELSE /\ limiter' = IF options.gba_refresh_rate THEN acc - target_frame_time
                               ELSE limiter
                /\ StateUpdate(keys, dt)

\* Game::update with delta time dt while the direction keys `keys` are held:
\* the frame limiter may skip the frame, a visible options menu pauses the
\* game, and otherwise the game state is updated
Update(keys, dt) ==
    /\ running
    /\ ret' = NoCall
    /\ UNCHANGED <<rooms, current, args, options, running>>
    /\ \E acc \in {limiter + dt * 1000} :
           IF options.gba_refresh_rate /\ acc < target_frame_time
           THEN /\ limiter' = acc
                /\ UNCHANGED <<player, branch, enemies, state, intro_index, intro_timer>>
           ELSE /\ limiter' = IF options.gba_refresh_rate THEN acc - target_frame_time
                               ELSE limiter
                /\ IF options.visible
                   THEN UNCHANGED <<player, branch, enemies, state, intro_index, intro_timer>>
                   ELSE StateUpdate(keys, dt)

(***************************************************************************)
(* Specifications                                                          *)
(***************************************************************************)
\* the delta times of the whole-game specification: none, half a tile's worth
\* of motion, a tile's worth
DtCoarse == {0, 100, 200}

\* a frame of the whole-game specification
Tick(keys, dt) == Update(keys, dt) /\ UNCHANGED ticks

Next ==
    \/ \E code \in KeyCodes : KeyDown(code)
    \/ \E keys \in KeySets, dt \in DtCoarse : Tick(keys, dt)

\* The whole game from Game::new, through Title and Intro into Playing, over
\* the whole room, with frames of 0, 100 or 200 ms.
Spec == Init /\ [][Next]_vars

\* The player standing below the door after a step up from (10,2); Spec
\* reaches this state (LandmarkReached).
AtDoorstep ==
    [position |-> Pt(Px(320), Px(32)), target |-> Pt(Px(320), Px(32)),
     moving |-> FALSE, facing |-> <<0, -1>>]

\* Playing states of Spec from which the fine-grained specification starts:
\* the entry into Playing, and the player below the closed door
InitFine ==
    /\ rooms = Map_new
    /\ current = 0
    /\ \/ player = Player_new /\ branch = "new"
       \/ player = AtDoorstep /\ branch = "snap_ok"
    /\ ticks = 0
    /\ state = "Playing"
    /\ intro_index = IntroLines
    /\ intro_timer = 0
    /\ ret = NoCall
    /\ args = NoArgs
    /\ enemies = <<>>
    /\ options = Options_new
    /\ limiter = 0
    /\ running = TRUE

\* a frame of the fine-grained specification, which spends at most MaxTicks frames
BoundedTick(keys, dt) ==
    /\ ticks < MaxTicks
    /\ Update(keys, dt)
    /\ ticks' = ticks + 1

NextFine ==
    \/ \E code \in KeyCodes : KeyDown(code)
    \/ \E keys \in KeySets, dt \in DtSet : BoundedTick(keys, dt)

\* Playing, for MaxTicks frames of any delta time of DtSet.
SpecFine == InitFine /\ [][NextFine]_vars

\* the key codes of the whole keyboard handler: the menu key X, the cancel
\* key C, the activation keys, Escape and the arrows
MenuKeyCodes == {"X", "C", "Z", "Return", "Space", "Escape", "Up", "Down", "Left", "Right"}

\* the delta times of the frames of the menu specification: none, less than
\* the frame time of the limiter, a tile's worth of motion
MenuDt == {0, 10, 200}

\* the frames the menu specification spends
MenuTicks == 3

\* Game::new, or the game in Playing with the player below the closed door
InitMenu ==
    \/ Init
    \/ /\ InitFine
       /\ player = AtDoorstep

\* a frame of the menu specification
MenuTick(keys, dt) ==
    /\ ticks < MenuTicks
    /\ Update(keys, dt)
    /\ ticks' = ticks + 1

NextMenu ==
    \/ \E code \in MenuKeyCodes : KeyDown(code)
    \/ \E keys \in KeySets, dt \in MenuDt : MenuTick(keys, dt)

\* The whole game with the options menu, the frame limiter and the exit to
\* the desktop, for MenuTicks frames.
SpecMenu == InitMenu /\ [][NextMenu]_vars

LandmarkReached == ~(state = "Playing" /\ player = AtDoorstep /\ branch = "snap_ok"
                     /\ rooms = Map_new /\ intro_index = IntroLines /\ intro_timer = 0)

(***************************************************************************)
(* The room interface, called directly                                     *)
(***************************************************************************)
\* the largest room the room specification builds
MaxRoomWidth == 5

MaxRoomHeight == 6

RoomWidths == {3, MaxRoomWidth}

RoomHeights == {5, MaxRoomHeight}

\* tile indices (usize) passed to the room: every column and row of the
\* largest room, and one past them
ProbeTx == 0..MaxRoomWidth

ProbeTy == 0..MaxRoomHeight

\* pixel coordinates passed to the room: one negative, and in every probed
\* column or row the tile boundary and the hitbox inset
ProbeCoords(n) ==
    {-Px(1)} \cup {k * TILE_SIZE + d : k \in 0..n, d \in {0, hitbox_offset}}

\* rectangle sizes passed to the room
ProbeSizes == {0, hitbox_size, TILE_SIZE}

\* the cells within two columns and two rows of (tx, ty)
Near(tx, ty) ==
    {c \in ProbeTx \X ProbeTy : Abs(c[1] - tx) <= 2 /\ Abs(c[2] - ty) <= 2}

\* the argument lists the room specification draws: a rectangle; a tile and a
\* player tile near it; a move of the player's hitbox between two nearby cells
RectArgs ==
    {[kind |-> "rect", x |-> x, y |-> y, w |-> w, h |-> h] :
        x \in ProbeCoords(MaxRoomWidth), y \in ProbeCoords(MaxRoomHeight),
        w \in ProbeSizes, h \in ProbeSizes}

TileArgs ==
    UNION {{[kind |-> "tile", tx |-> tx, ty |-> ty, player_tx |-> c[1], player_ty |-> c[2]] :
               c \in Near(tx, ty)} : tx \in ProbeTx, ty \in ProbeTy}

MoveArgs ==
    UNION {{[kind |-> "move",
             from_x |-> fx * TILE_SIZE + hitbox_offset, from_y |-> fy * TILE_SIZE + hitbox_offset,
             to_x |-> c[1] * TILE_SIZE + hitbox_offset, to_y |-> c[2] * TILE_SIZE + hitbox_offset,
             w |-> hitbox_size, h |-> hitbox_size] :
               c \in Near(fx, fy)} : fx \in ProbeTx, fy \in ProbeTy}

\* a map holding one room GridRoom::new(w, h), and the arguments of the calls
InitRoom ==
    /\ \E w \in RoomWidths, h \in RoomHeights : rooms = <<GridRoom_new(w, h)>>
    /\ args \in RectArgs \cup TileArgs \cup MoveArgs
    /\ current = 0
    /\ player = Player_new
    /\ branch = "new"
    /\ ticks = 0
    /\ state = "Title"
    /\ intro_index = 0
    /\ intro_timer = 0
    /\ ret = NoCall
    /\ enemies = <<>>
    /\ options = Options_new
    /\ limiter = 0
    /\ running = TRUE

\* Map::interact_tile(tx, ty)
Call_interact_tile(tx, ty) ==
    /\ \E r \in {Map_interact_tile(tx, ty)} :
           /\ rooms' = r.rooms
           /\ ret' = [fn |-> "interact_tile", result |-> r.ret]
    /\ UNCHANGED <<current, player, branch, ticks, state, intro_index, intro_timer, args, enemies, options, limiter, running>>

\* Map::is_rect_free(x, y, w, h)
Call_is_rect_free(x, y, w, h) ==
    /\ ret' = [fn |-> "is_rect_free", result |-> Map_is_rect_free(x, y, w, h)]
    /\ UNCHANGED <<rooms, current, player, branch, ticks, state, intro_index, intro_timer, args, enemies, options, limiter, running>>

\* Map::can_interact_tile(tx, ty, player_tx, player_ty)
Call_can_interact_tile(tx, ty, player_tx, player_ty) ==
    /\ ret' = [fn |-> "can_interact_tile",
               result |-> Map_can_interact_tile(tx, ty, player_tx, player_ty)]
    /\ UNCHANGED <<rooms, current, player, branch, ticks, state, intro_index, intro_timer, args, enemies, options, limiter, running>>

\* Map::is_movement_allowed(from_x, from_y, to_x, to_y, w, h)
Call_is_movement_allowed(from_x, from_y, to_x, to_y, w, h) ==
    /\ ret' = [fn |-> "is_movement_allowed",
               result |-> Map_is_movement_allowed(from_x, from_y, to_x, to_y, w, h)]
    /\ UNCHANGED <<rooms, current, player, branch, ticks, state, intro_index, intro_timer, args, enemies, options, limiter, running>>

NextRoom ==
    \/ \E tx \in ProbeTx, ty \in ProbeTy : Call_interact_tile(tx, ty)
    \/ args.kind = "rect" /\ Call_is_rect_free(args.x, args.y, args.w, args.h)
    \/ args.kind = "tile"
       /\ Call_can_interact_tile(args.tx, args.ty, args.player_tx, args.player_ty)
    \/ args.kind = "move"
       /\ Call_is_movement_allowed(args.from_x, args.from_y, args.to_x, args.to_y,
                                   args.w, args.h)

\* Rooms of several sizes, built by GridRoom::new and called through the Map
\* with the arguments drawn by InitRoom.
SpecRoom == InitRoom /\ [][NextRoom]_vars

(***************************************************************************)
(* The enemy, updated directly                                             *)
(***************************************************************************)
\* the delta times of the enemy specification, in milliseconds: none, and 8,
\* 16 and 32 px worth of motion
EnemyDt == {0, 50, 100, 200, 400}

\* the positions of the player the enemy is updated against: to the upper
\* left, on the spawn bed, in the enemy's column, on the enemy itself, to the
\* lower right, at the far right of the enemy's row, in the column next to
\* the left wall
PlayerPositions ==
    {Pt(Px(100), Px(100)), Pt(Px(64), Px(384)), Pt(Px(200), Px(100)),
     Pt(Px(200), Px(200)), Pt(Px(320), Px(320)), Pt(Px(576), Px(200)),
     Pt(Px(32), Px(192))}

\* a player standing at pos
PlayerAt(pos) == [Player_new EXCEPT !.position = pos, !.target = pos]

\* the default map, one enemy from Enemy::new, and a player that stands still
InitEnemy ==
    /\ rooms = Map_new
    /\ current = 0
    /\ \E pos \in PlayerPositions : player = PlayerAt(pos)
    /\ branch = "new"
    /\ ticks = 0
    /\ state = "Playing"
    /\ intro_index = IntroLines
    /\ intro_timer = 0
    /\ ret = NoCall
    /\ args = NoArgs
    /\ enemies = <<Enemy_new>>
    /\ options = Options_new
    /\ limiter = 0
    /\ running = TRUE

\* Enemy::update(dt, player, map) on every enemy
Call_Enemy_update(dt) ==
    /\ enemies' = [i \in DOMAIN enemies |-> Enemy_update(enemies[i], dt, player.position)]
    /\ ret' = [fn |-> "Enemy_update", dt |-> dt]
    /\ UNCHANGED <<rooms, current, player, branch, ticks, state, intro_index, intro_timer, args,
                   options, limiter, running>>

NextEnemy == \E dt \in EnemyDt : Call_Enemy_update(dt)

\* One enemy from Enemy::new in the default room, updated with any delta time
\* of EnemyDt against a player at one of PlayerPositions.
SpecEnemy == InitEnemy /\ [][NextEnemy]_vars

(***************************************************************************)
(* The map with several rooms                                              *)
(***************************************************************************)
\* the largest number of rooms the map specification holds
MaxRooms == 3

\* the rooms handed to add_room
AddedRooms == {GridRoom_new(w, h) : w \in RoomWidths, h \in RoomHeights}

\* the indices handed to set_current: every index up to MaxRooms, the last
\* one being out of range for every map of the specification
Indices == 0..MaxRooms

\* the argument lists the map specification draws: the hitbox on the tiles
\* (1,0), (2,0), (1,1), (2,1); the tiles (1,0), (2,0), (10,0), where the rooms
\* have their doors, and (1,1), with the player on the tile below; a move of
\* the hitbox from a tile of columns 1..3 and rows 1..2 to the tile to the
\* left, to the right or above
MapArgs ==
    {[kind |-> "rect", x |-> tx * TILE_SIZE + hitbox_offset, y |-> ty * TILE_SIZE + hitbox_offset,
      w |-> hitbox_size, h |-> hitbox_size] : tx \in {1, 2}, ty \in {0, 1}}
    \cup {[kind |-> "tile", tx |-> c[1], ty |-> c[2], player_tx |-> c[1], player_ty |-> c[2] + 1] :
             c \in {<<1, 0>>, <<2, 0>>, <<10, 0>>, <<1, 1>>}}
    \cup {[kind |-> "move",
           from_x |-> fx * TILE_SIZE + hitbox_offset, from_y |-> fy * TILE_SIZE + hitbox_offset,
           to_x |-> (fx + d[1]) * TILE_SIZE + hitbox_offset,
           to_y |-> (fy + d[2]) * TILE_SIZE + hitbox_offset,
           w |-> hitbox_size, h |-> hitbox_size] :
             fx \in {1, 2, 3}, fy \in {1, 2}, d \in {<<-1, 0>>, <<1, 0>>, <<0, -1>>}}

\* Map::new, and the arguments of the calls
InitMap ==
    /\ rooms = Map_new
    /\ current = 0
    /\ args \in MapArgs
    /\ player = Player_new
    /\ branch = "new"
    /\ ticks = 0
    /\ state = "Title"
    /\ intro_index = 0
    /\ intro_timer = 0
    /\ ret = NoCall
    /\ enemies = <<>>
    /\ options = Options_new
    /\ limiter = 0
    /\ running = TRUE

\* Map::add_room(room)
Call_add_room(room) ==
    /\ Len(rooms) < MaxRooms
    /\ \E r \in {Map_add_room(room)} :
           /\ rooms' = r.rooms
           /\ ret' = [fn |-> "add_room", result |-> r.ret]
    /\ UNCHANGED <<current, player, branch, ticks, state, intro_index, intro_timer, args, enemies, options, limiter, running>>

\* Map::set_current(idx)
Call_set_current(idx) ==
    /\ current' = Map_set_current(idx)
    /\ ret' = [fn |-> "set_current", idx |-> idx]
    /\ UNCHANGED <<rooms, player, branch, ticks, state, intro_index, intro_timer, args, enemies, options, limiter, running>>

\* Map::is_solid_at_point(x, y)
Call_is_solid_at_point(x, y) ==
    /\ ret' = [fn |-> "is_solid_at_point", result |-> Map_is_solid_at_point(x, y)]
    /\ UNCHANGED <<rooms, current, player, branch, ticks, state, intro_index, intro_timer, args, enemies, options, limiter, running>>

\* Map::width_pixels()
Call_width_pixels ==
    /\ ret' = [fn |-> "width_pixels", result |-> Map_width_pixels]
    /\ UNCHANGED <<rooms, current, player, branch, ticks, state, intro_index, intro_timer, args, enemies, options, limiter, running>>

\* Map::height_pixels()
Call_height_pixels ==
    /\ ret' = [fn |-> "height_pixels", result |-> Map_height_pixels]
    /\ UNCHANGED <<rooms, current, player, branch, ticks, state, intro_index, intro_timer, args, enemies, options, limiter, running>>

NextMap ==
    \/ \E room \in AddedRooms : Call_add_room(room)
    \/ \E idx \in Indices : Call_set_current(idx)
    \/ Call_width_pixels
    \/ Call_height_pixels
    \/ args.kind = "rect" /\ Call_is_solid_at_point(args.x, args.y)
    \/ args.kind = "rect" /\ Call_is_rect_free(args.x, args.y, args.w, args.h)
    \/ args.kind = "tile" /\ Call_interact_tile(args.tx, args.ty)
    \/ args.kind = "tile"
       /\ Call_can_interact_tile(args.tx, args.ty, args.player_tx, args.player_ty)
    \/ args.kind = "move"
       /\ Call_is_movement_allowed(args.from_x, args.from_y, args.to_x, args.to_y,
                                   args.w, args.h)

\* The map of Map::new, to which rooms are added up to MaxRooms, with the
\* cursor set to any index and every forwarded method called.
SpecMap == InitMap /\ [][NextMap]_vars

(***************************************************************************)
(* The headless update of the player                                       *)
(***************************************************************************)
\* the directions handed to update_with_dir: the four axes, two diagonals, a
\* direction that is not a unit vector, and the zero vector
HeadlessDirs ==
    {<<1, 0>>, <<-1, 0>>, <<0, 1>>, <<0, -1>>, <<1, 1>>, <<-1, -1>>, <<2, 0>>, <<0, 0>>}

\* the delta times handed to update_with_dir, in milliseconds: none, a tile's
\* worth of motion, and the 0.5 s of tests::player_moves_right
HeadlessDt == {0, 200, 500}

\* tests::player_moves_right: Player::test_new and Map::new
InitHeadless ==
    /\ rooms = Map_new
    /\ current = 0
    /\ player = Player_test_new
    /\ branch = "new"
    /\ ticks = 0
    /\ state = "Playing"
    /\ intro_index = IntroLines
    /\ intro_timer = 0
    /\ ret = NoCall
    /\ args = NoArgs
    /\ enemies = <<>>
    /\ options = Options_new
    /\ limiter = 0
    /\ running = TRUE

\* Player::update_with_dir(dir, dt, map), at most MaxTicks times
Call_update_with_dir(dir, dt) ==
    /\ ticks < MaxTicks
    /\ \E r \in {update_with_dir(player, dir, dt)} :
           /\ player' = [position |-> r.position, target |-> r.target,
                         moving |-> r.moving, facing |-> r.facing]
           /\ branch' = r.branch
    /\ ticks' = ticks + 1
    /\ ret' = NoCall
    /\ UNCHANGED <<rooms, current, state, intro_index, intro_timer, args, enemies, options, limiter, running>>

NextHeadless == \E dir \in HeadlessDirs, dt \in HeadlessDt : Call_update_with_dir(dir, dt)

\* The player of Player::test_new in the default room, moved by MaxTicks
\* headless updates.
SpecHeadless == InitHeadless /\ [][NextHeadless]_vars

(***************************************************************************)
(* Properties of the room interface (SpecRoom)                             *)
(***************************************************************************)
\* the room the calls are forwarded to
Room == rooms[current + 1]

InGrid(tiles, tx, ty) == tx >= 0 /\ ty >= 0 /\ tx < Width(tiles) /\ ty < Height(tiles)

\* some tile index of the ranges floor(x/32)..floor((x+w)/32) and
\* floor(y/32)..floor((y+h)/32) lies outside the grid
RangeLeavesGrid(tiles, x, y, w, h) ==
    \E tx \in FloorTile(x)..FloorTile(x + w), ty \in FloorTile(y)..FloorTile(y + h) :
        ~InGrid(tiles, tx, ty)

RectCalled == args.kind = "rect" /\ ret.fn = "is_rect_free"

\* C1: is_rect_free is fail-closed: called with x < 0 or y < 0, or with a
\* rectangle whose inclusive tile ranges hold an index outside the grid, it
\* returns false.
C1_FailClosed ==
    (RectCalled /\ (args.x < 0 \/ args.y < 0
                    \/ RangeLeavesGrid(Room, args.x, args.y, args.w, args.h)))
        => ret.result = FALSE

\* is_rect_free has returned false for a rectangle with no negative
\* coordinate that covers no tile of the grid at all, so that no tile of the
\* room is what blocks it
C1_Witness ==
    /\ RectCalled
    /\ args.x >= 0 /\ args.y >= 0
    /\ \A tx \in FloorTile(args.x)..FloorTile(args.x + args.w),
          ty \in FloorTile(args.y)..FloorTile(args.y + args.h) : ~InGrid(Room, tx, ty)
    /\ ret.result = FALSE

\* C4: interact_tile on a DoorClosed cell makes it DoorOpen, changes no other
\* cell and returns true; a second call on the same cell returns true and
\* restores the grid exactly; on a cell that is no door, or on an index out of
\* bounds, it returns false and leaves the whole grid unchanged.
C4_TogglePairing ==
    \A tx \in ProbeTx, ty \in ProbeTy :
        LET first == interact_tile(Room, tx, ty)
            second == interact_tile(first.tiles, tx, ty)
        IN  IF InGrid(Room, tx, ty) /\ TileAt(Room, tx, ty) = "DoorClosed"
            THEN /\ first.ret = TRUE
                 /\ first.tiles = [Room EXCEPT ![ty + 1][tx + 1] = "DoorOpen"]
                 /\ second.ret = TRUE
                 /\ second.tiles = Room
            ELSE IF InGrid(Room, tx, ty) /\ TileAt(Room, tx, ty) = "DoorOpen"
            THEN TRUE
            ELSE first.ret = FALSE /\ first.tiles = Room

\* a door that has been opened has been closed again by a call that returned true
C4_Witness ==
    /\ ret = [fn |-> "interact_tile", result |-> TRUE]
    /\ TileAt(Room, Width(Room) \div 2, 0) = "DoorClosed"

TileCalled == args.kind = "tile" /\ ret.fn = "can_interact_tile"

\* C5: can_interact_tile(tx, ty, ptx, pty) is true if and only if (tx, ty) is
\* in the grid, the tile there is DoorClosed or DoorOpen, and
\* |tx - ptx| + |ty - pty| = 1.
C5_AdjacencyGate ==
    TileCalled =>
        (ret.result = TRUE <=>
            /\ InGrid(Room, args.tx, args.ty)
            /\ TileAt(Room, args.tx, args.ty) \in {"DoorClosed", "DoorOpen"}
            /\ Abs(args.tx - args.player_tx) + Abs(args.ty - args.player_ty) = 1)

\* can_interact_tile has returned true for an open door
C5_Witness ==
    /\ TileCalled
    /\ ret.result = TRUE
    /\ TileAt(Room, args.tx, args.ty) = "DoorOpen"

\* can_interact_tile has returned false for a door and a diagonal neighbour
C5_WitnessDiagonal ==
    /\ TileCalled
    /\ ret.result = FALSE
    /\ InGrid(Room, args.tx, args.ty)
    /\ TileAt(Room, args.tx, args.ty) \in {"DoorClosed", "DoorOpen"}
    /\ Abs(args.tx - args.player_tx) = 1 /\ Abs(args.ty - args.player_ty) = 1

\* is_movement_allowed was called, and the base rectangle check passes at the
\* destination
MoveCalled ==
    /\ args.kind = "move" /\ ret.fn = "is_movement_allowed"
    /\ is_rect_free(Room, args.to_x, args.to_y, args.w, args.h)

FromBed == is_on_top_bed_tile(Room, args.from_x, args.from_y)

ToBed == is_on_top_bed_tile(Room, args.to_x, args.to_y)

FromBedDoor == is_bed_door_tile(Room, args.from_x, args.from_y)

ToBedDoor == is_bed_door_tile(Room, args.to_x, args.to_y)

\* the move starts in the topmost bed row
FromTopBedRow == FromBed /\ AsUsize(FloorTile(args.from_y)) = Height(Room) - 4

\* the first, second and fourth rule of C6: into a bed-door tile from a non-bed
\* point, eastward is rejected and westward accepted; northward out of the
\* topmost bed row to a non-bed point is rejected
C6_EntryAndTop ==
    /\ (~FromBed /\ ToBedDoor /\ args.to_x > args.from_x) => ret.result = FALSE
    /\ (~FromBed /\ ToBedDoor /\ args.to_x < args.from_x) => ret.result = TRUE
    /\ (FromTopBedRow /\ ~ToBed /\ args.to_y < args.from_y) => ret.result = FALSE

\* C6 as stated: with the base rectangle check passing, the entry and top-row
\* rules hold, and every move with to_x > from_x from a bed-door point to a
\* non-bed point is accepted.
C6_AsStated ==
    MoveCalled =>
        /\ C6_EntryAndTop
        /\ (FromBedDoor /\ ~ToBed /\ args.to_x > args.from_x) => ret.result = TRUE

\* C6, amended: with the base rectangle check passing, the entry and top-row
\* rules hold, and a move with to_x > from_x from a bed-door point to a non-bed
\* point is accepted unless it also goes north (to_y < from_y) out of the
\* topmost bed row.
C6_Directionality ==
    MoveCalled =>
        /\ C6_EntryAndTop
        /\ (FromBedDoor /\ ~ToBed /\ args.to_x > args.from_x
            /\ ~(FromTopBedRow /\ args.to_y < args.from_y)) => ret.result = TRUE

\* a move east out of the bed-door tile of the topmost bed row was accepted
C6_Witness ==
    /\ MoveCalled
    /\ FromBedDoor /\ FromTopBedRow /\ ~ToBed
    /\ args.to_x > args.from_x /\ args.to_y = args.from_y
    /\ TileAt(Room, FloorTile(args.from_x), FloorTile(args.from_y)) = "Bed"
    /\ ret.result = TRUE

(***************************************************************************)
(* Properties of the player (SpecFine)                                     *)
(***************************************************************************)
Playing == state = "Playing"

\* the distance from v to the nearest multiple of TILE_SIZE
OffLattice(v) == Abs(v - RoundTile(v) * TILE_SIZE)

\* C2: after every Player.update, a player that is not moving is within
\* 0.5 px of a multiple of TILE_SIZE on both axes.
C2_GridAlignment ==
    (Playing /\ ~player.moving) =>
        OffLattice(player.position.x) <= HalfPx /\ OffLattice(player.position.y) <= HalfPx

\* the safeguard has snapped a stopped player back to the lattice
C2_Witness ==
    /\ Playing /\ ~player.moving
    /\ branch = "inc_blocked+snap"
    /\ OffLattice(player.position.x) = 0 /\ OffLattice(player.position.y) = 0

\* a player has stopped off the lattice, within the 0.5 px the safeguard allows
C2_WitnessOffLattice ==
    /\ Playing /\ ~player.moving
    /\ OffLattice(player.position.x) + OffLattice(player.position.y) > 0

SolidTiles == {"Wall", "DoorClosed", "Fwall", "Table"}

\* the inset hitbox of a player at pos shares interior with the tile (tx, ty)
HitboxOverlaps(pos, tx, ty) ==
    /\ pos.x + hitbox_offset < (tx + 1) * TILE_SIZE
    /\ pos.x + hitbox_offset + hitbox_size > tx * TILE_SIZE
    /\ pos.y + hitbox_offset < (ty + 1) * TILE_SIZE
    /\ pos.y + hitbox_offset + hitbox_size > ty * TILE_SIZE

\* C3: whatever ticks and door toggles have happened, the player's inset
\* hitbox overlaps no Wall, DoorClosed, Fwall or Table tile.
C3_NeverInBlockedCell ==
    Playing =>
        \A tx \in 0..(MapWidth - 1), ty \in 0..(MapHeight - 1) :
            HitboxOverlaps(player.position, tx, ty) => TileAt(Room, tx, ty) \notin SolidTiles

\* a player who had crept toward a solid tile was stopped by it and put back
\* on the lattice by the safeguard
C3_Witness ==
    /\ Playing
    /\ branch = "inc_blocked+snap"
    /\ TileAt(Room, FloorTile(player.target.x), FloorTile(player.target.y)) \in SolidTiles

\* the direction of a key
Direction(key) ==
    IF key = "Left" THEN <<-1, 0>>
    ELSE IF key = "Right" THEN <<1, 0>>
    ELSE IF key = "Up" THEN <<0, -1>>
    ELSE <<0, 1>>

\* the held key that Player.update obeys: the first in the order Left, Right, Up, Down
FirstKey(keys) ==
    IF "Left" \in keys THEN "Left"
    ELSE IF "Right" \in keys THEN "Right"
    ELSE IF "Up" \in keys THEN "Up"
    ELSE "Down"

\* the lattice point of the cell next to the cell of pos in direction d
AdjacentPoint(pos, d) ==
    Pt((RoundTile(pos.x) + d[1]) * TILE_SIZE, (RoundTile(pos.y) + d[2]) * TILE_SIZE)

\* a tick of dt is long enough for a whole tile: dt >= TILE_SIZE / speed
WholeTile(dt) == Step(dt) >= TILE_SIZE

\* after Player.update with `keys` held for dt the player stands on the point
\* next to it in the direction of `key`
StepsInOneTick(keys, key, dt) ==
    LET adj == AdjacentPoint(player.position, Direction(key))
        r == PlayerUpdate(player, keys, dt)
    IN  HitboxMoveAllowed(player.position, adj) => (r.position = adj /\ ~r.moving)

C10_AsStated ==
    Playing =>
        \A keys \in KeySets, dt \in DtSet :
            LET r == PlayerUpdate(player, keys, dt)
                dx == Abs(r.position.x - player.position.x)
                dy == Abs(r.position.y - player.position.y)
            IN  r.branch \in {"inc_ok", "inc_blocked", "inc_blocked+snap"} =>
                    \/ (dx = Step(dt) /\ dx # 0 /\ dy = 0)
                    \/ (dy = Step(dt) /\ dy # 0 /\ dx = 0)

\* C10, amended: every Player.update whose incremental move is accepted
\* changes the position by speed * dt along one axis and not at all along the
\* other; for dt > 0 exactly one of dx, dy is non-zero.
C10_NoDiagonalStep ==
    Playing =>
        \A keys \in KeySets, dt \in DtSet :
            LET r == PlayerUpdate(player, keys, dt)
                dx == Abs(r.position.x - player.position.x)
                dy == Abs(r.position.y - player.position.y)
            IN  r.branch = "inc_ok" =>
                    (dx = Step(dt) /\ dy = 0) \/ (dy = Step(dt) /\ dx = 0)

\* an accepted incremental move has left the player off the lattice on one
\* axis, still moving
C10_Witness ==
    /\ Playing
    /\ branch = "inc_ok"
    /\ player.moving
    /\ OffLattice(player.position.x) + OffLattice(player.position.y) > 0
    /\ OffLattice(player.position.x) = 0 \/ OffLattice(player.position.y) = 0

\* the cell that holds the centre of the player
CellOf(pos) == Pt(FloorTile(pos.x + TILE_SIZE \div 2), FloorTile(pos.y + TILE_SIZE \div 2))

Doors == {"DoorClosed", "DoorOpen"}

\* the room after the interact key is pressed now
AfterZ == InteractKey(player.position, player.facing).rooms[current + 1]

\* the four orthogonal neighbours of the player's cell that lie in the grid
Neighbours ==
    {c \in {<<CellOf(player.position).x + d[1], CellOf(player.position).y + d[2]>> :
                d \in {<<-1, 0>>, <<1, 0>>, <<0, -1>>, <<0, 1>>}} :
        InGrid(Room, c[1], c[2])}

\* the neighbour the player faces, if it lies in the grid
Faced ==
    {c \in {<<CellOf(player.position).x + player.facing[1],
              CellOf(player.position).y + player.facing[2]>>} :
        InGrid(Room, c[1], c[2])}

\* C8 as stated: in Playing, Z opens a DoorClosed tile next to the player's
\* cell and closes a DoorOpen tile next to it, and changes no tile when no
\* door is next to the player's cell.
C8_AsStated ==
    Playing =>
        \A after \in {AfterZ} :
            /\ \A c \in Neighbours :
                   /\ TileAt(Room, c[1], c[2]) = "DoorClosed"
                          => TileAt(after, c[1], c[2]) = "DoorOpen"
                   /\ TileAt(Room, c[1], c[2]) = "DoorOpen"
                          => TileAt(after, c[1], c[2]) = "DoorClosed"
            /\ (\A c \in Neighbours : TileAt(Room, c[1], c[2]) \notin Doors)
                   => after = Room

\* C8, amended: in Playing, Z opens the DoorClosed tile, and closes the
\* DoorOpen tile, that is next to the player's cell in the direction the
\* player faces, and changes no other tile; when the faced cell is no door,
\* and so whenever no door is next to the player's cell, Z changes no tile.
C8_InteractKey ==
    Playing =>
        \A after \in {AfterZ} :
            /\ \A c \in Faced :
                   /\ TileAt(Room, c[1], c[2]) = "DoorClosed"
                          => after = [Room EXCEPT ![c[2] + 1][c[1] + 1] = "DoorOpen"]
                   /\ TileAt(Room, c[1], c[2]) = "DoorOpen"
                          => after = [Room EXCEPT ![c[2] + 1][c[1] + 1] = "DoorClosed"]
            /\ (\A c \in Faced : TileAt(Room, c[1], c[2]) \notin Doors)
                   => after = Room
            /\ (\A c \in Neighbours : TileAt(Room, c[1], c[2]) \notin Doors)
                   => after = Room

\* the player has opened the door with Z and closed it again with Z
C8_Witness ==
    /\ Playing
    /\ ret = [fn |-> "interact_tile", tx |-> MapWidth \div 2, ty |-> 0, result |-> TRUE]
    /\ TileAt(Room, MapWidth \div 2, 0) = "DoorClosed"

(***************************************************************************)
(* The player holding Up below the open door (SpecHoldUp)                  *)
(***************************************************************************)
DoorCell == Pt(MapWidth \div 2, 0)

DoorIsOpen == TileAt(Room, DoorCell.x, DoorCell.y) = "DoorOpen"

\* the door is open and the player is in the door's column, on the lattice
\* point of the cell below the door or between it and the door's
BelowOpenDoor ==
    /\ Playing
    /\ DoorIsOpen
    /\ player.position.x = DoorCell.x * TILE_SIZE
    /\ player.position.y >= DoorCell.y * TILE_SIZE
    /\ player.position.y <= (DoorCell.y + 1) * TILE_SIZE

\* a frame of dt > 0 with Up held, below the open door
HoldUp ==
    /\ BelowOpenDoor
    /\ \E dt \in DtSet \ {0} : Update({"Up"}, dt)
    /\ UNCHANGED ticks

\* The fine-grained specification until the player stands below the open
\* door; from then on Up is held in every frame, and frames keep coming (the
\* event loop calls Game::update once per frame for as long as the game runs).
NextHoldUp ==
    \/ ~BelowOpenDoor /\ \E code \in KeyCodes : KeyDown(code)
    \/ ~BelowOpenDoor /\ \E keys \in KeySets, dt \in DtSet : BoundedTick(keys, dt)
    \/ HoldUp

SpecHoldUp == InitFine /\ [][NextHoldUp]_vars /\ WF_vars(HoldUp)

\* the position of the player is the lattice point of the door cell
OnDoor ==
    player.position = Pt(DoorCell.x * TILE_SIZE, DoorCell.y * TILE_SIZE)

\* C9: once the door is open, a player standing on the lattice point of the
\* cell below it who holds Up with dt > 0 in every frame eventually has its
\* position on the door cell.
C9_OpenDoorPassable == BelowOpenDoor ~> OnDoor

\* C9, the same in one state: when the door is open the hitbox of a player
\* placed on the door cell is free
C9_DoorCellFree ==
    (Playing /\ DoorIsOpen) =>
        Map_is_rect_free(DoorCell.x * TILE_SIZE + hitbox_offset,
                         DoorCell.y * TILE_SIZE + hitbox_offset, hitbox_size, hitbox_size)

\* whatever happens, the hitbox of the player never overlaps the door tile
NeverOnDoorTile ==
    Playing => ~HitboxOverlaps(player.position, DoorCell.x, DoorCell.y)

(***************************************************************************)
(* Properties of the player over the whole room (Spec)                     *)
(***************************************************************************)
\* pos lies in [0, map_width - 32] x [0, map_height - 32]
InMap(pos) ==
    /\ 0 <= pos.x /\ pos.x <= Map_width_pixels - TILE_SIZE
    /\ 0 <= pos.y /\ pos.y <= Map_height_pixels - TILE_SIZE

\* C11: after every Player.update the position lies in
\* [0, map_width - 32] x [0, map_height - 32]: in every state of the game, and
\* after one more update with any keys and any delta time of DtSet.
C11_MapBounds ==
    Playing =>
        /\ InMap(player.position)
        /\ \A keys \in KeySets, dt \in DtSet : InMap(PlayerUpdate(player, keys, dt).position)

\* the player stands next to the right border and an update has refused the
\* step onto the last column
C11_Witness ==
    /\ Playing
    /\ branch \in {"snap_blocked", "inc_blocked", "inc_blocked+snap"}
    /\ player.target.x = Map_width_pixels - TILE_SIZE
    /\ player.position.x = Map_width_pixels - 2 * TILE_SIZE
    /\ InMap(player.position)

(***************************************************************************)
(* Properties of the enemy (SpecEnemy)                                     *)
(***************************************************************************)
\* the sign of a difference: -1, 0 or 1
Sign(v) == IF v < 0 THEN -1 ELSE IF v > 0 THEN 1 ELSE 0

\* the map does not report the point the enemy probes at position pt as solid
ProbeFree(pt) == ~Map_is_solid_at_point(pt.x + probe_offset, pt.y + probe_offset)

\* the target of every enemy differs from its position on one axis at most
EnemyAxisAligned ==
    \A i \in DOMAIN enemies :
        enemies[i].target.x = enemies[i].position.x \/ enemies[i].target.y = enemies[i].position.y

\* C12: an enemy that is not moving, with the player in another column, takes
\* the target (x + sign(player.x - x) * 32, y) whatever the vertical distance;
\* when the step of the tick covers the 32 px and the map does not report the
\* target as solid, it ends the tick on that target with moving = false.
C12_HorizontalFirst ==
    \A i \in DOMAIN enemies :
        (~enemies[i].moving /\ player.position.x # enemies[i].position.x) =>
            \A dt \in EnemyDt :
                \A r \in {Enemy_update(enemies[i], dt, player.position)} :
                    \A goal \in {Pt(enemies[i].position.x
                                      + Sign(player.position.x - enemies[i].position.x) * Px(32),
                                    enemies[i].position.y)} :
                        /\ r.target = goal
                        /\ (EnemyStep(dt) >= Px(32) /\ ProbeFree(goal)) =>
                               (r.position = goal /\ ~r.moving)

\* the example of the claim: the enemy of Enemy::new and the player at
\* (100,100), after one update of 0.4 s
C12_Witness ==
    /\ player.position = Pt(Px(100), Px(100))
    /\ ret = [fn |-> "Enemy_update", dt |-> 400]
    /\ enemies = <<[position |-> Pt(Px(168), Px(200)), target |-> Pt(Px(168), Px(200)),
                    moving |-> FALSE]>>

\* within one pixel of a multiple of grid_size on both axes
EnemyOnGrid(pos) ==
    /\ Abs(pos.x - RoundTile(pos.x) * grid_size) <= Px(1)
    /\ Abs(pos.y - RoundTile(pos.y) * grid_size) <= Px(1)

\* C13: from Enemy::new and after every Enemy.update, an enemy that is not
\* moving stands on the grid (within a pixel of a multiple of 32 on both axes).
C13_EnemyAlignment ==
    \A i \in DOMAIN enemies : ~enemies[i].moving => EnemyOnGrid(enemies[i].position)

\* no enemy that is not moving ever stands on the grid
C13_NeverAligned ==
    \A i \in DOMAIN enemies : ~enemies[i].moving => ~EnemyOnGrid(enemies[i].position)

C16_PureDispatch ==
    [][/\ ret'.fn \in {"is_solid_at_point", "is_rect_free", "width_pixels", "height_pixels",
                       "can_interact_tile", "is_movement_allowed"}
          => rooms' = rooms /\ current' = current
       /\ ret'.fn = "is_solid_at_point"
          => ret'.result = is_solid_at_point(Room, args.x, args.y)
       /\ ret'.fn = "is_rect_free"
          => ret'.result = is_rect_free(Room, args.x, args.y, args.w, args.h)
       /\ ret'.fn = "width_pixels" => ret'.result = width_pixels(Room)
       /\ ret'.fn = "height_pixels" => ret'.result = height_pixels(Room)
       /\ ret'.fn = "can_interact_tile"
          => ret'.result = can_interact_tile(Room, args.tx, args.ty,
                                             args.player_tx, args.player_ty)
       /\ ret'.fn = "is_movement_allowed"
          => ret'.result = is_movement_allowed(Room, args.from_x, args.from_y,
                                               args.to_x, args.to_y, args.w, args.h)
       /\ ret'.fn = "interact_tile"
          => /\ current' = current
             /\ Len(rooms') = Len(rooms)
             /\ \A i \in DOMAIN rooms : i # current + 1 => rooms'[i] = rooms[i]
             /\ rooms'[current + 1] = interact_tile(Room, args.tx, args.ty).tiles
             /\ ret'.result = interact_tile(Room, args.tx, args.ty).ret
      ]_vars

\* interact_tile has just opened the door of the third room, the first two
\* rooms having their doors closed
C16_Witness ==
    /\ ret = [fn |-> "interact_tile", result |-> TRUE]
    /\ Len(rooms) = MaxRooms
    /\ current = 2
    /\ TileAt(rooms[3], args.tx, args.ty) = "DoorOpen"
    /\ rooms[1] = GridRoom_new(MapWidth, MapHeight)
    /\ rooms[2] \in AddedRooms

(***************************************************************************)
(* The border of a room (SpecRoom)                                         *)
(***************************************************************************)
\* the cells of row 0, row height - 1, column 0 and column width - 1
BorderCells(tiles) ==
    {c \in (0..(Width(tiles) - 1)) \X (0..(Height(tiles) - 1)) :
        c[1] = 0 \/ c[1] = Width(tiles) - 1 \/ c[2] = 0 \/ c[2] = Height(tiles) - 1}

BorderClosed(tiles) ==
    \A c \in BorderCells(tiles) : TileAt(tiles, c[1], c[2]) \in {"Wall", "DoorClosed", "DoorOpen"}

\* C17: in every room built by GridRoom::new, and after any sequence of
\* interact_tile calls, every cell of the border is Wall, DoorClosed or
\* DoorOpen.
C17_Border == BorderClosed(Room)

\* the border is closed in every room that is not five rows high with more
\* than three columns
BorderClosedUnlessTableRow ==
    (Height(Room) # 5 \/ Width(Room) <= 3) => BorderClosed(Room)

(***************************************************************************)
(* Properties of the headless update (SpecHeadless)                        *)
(***************************************************************************)
\* the point update_with_dir tries to move the player to
Destination(pos, dir, dt) ==
    Pt(pos.x + Displacement(Normalize(dir)[1], dt), pos.y + Displacement(Normalize(dir)[2], dt))

\* b lies from a in the direction dir, at the distance speed * dt (to the
\* three digits the normalized direction is carried with)
MovedAlong(a, b, dir, dt) ==
    LET dx == b.x - a.x
        dy == b.y - a.y
        step == (speed * dt) \div 10
    IN  /\ dx * dir[2] = dy * dir[1]
        /\ dx * dir[1] >= 0
        /\ dy * dir[2] >= 0
        /\ dx * dx + dy * dy <= step * step
        /\ dx * dx + dy * dy >= step * step - (step * step) \div 500 - 4 * step

\* C18: update_with_dir with a non-zero direction puts the player speed * dt
\* along the normalized direction when is_movement_allowed accepts the inset
\* hitbox there, and leaves it where it was otherwise, the result being
\* clamped into the map; from (96,96) with direction (1,0), an accepted
\* destination and dt > 0, x grows and y stays.
C18_HeadlessUpdate ==
    \A dir \in HeadlessDirs \ {<<0, 0>>}, dt \in HeadlessDt :
        \A r \in {update_with_dir(player, dir, dt)} :
            \A dest \in {Destination(player.position, dir, dt)} :
                \A allowed \in {HitboxMoveAllowed(player.position, dest)} :
                    /\ MovedAlong(player.position, dest, dir, dt)
                    /\ allowed => /\ r.position.x = Min(Max(dest.x, 0), Map_width_pixels - Px(32))
                                  /\ r.position.y = Min(Max(dest.y, 0), Map_height_pixels - Px(32))
                    /\ ~allowed => r.position = player.position
                    /\ (player.position = Pt(Px(96), Px(96)) /\ dir = <<1, 0>> /\ dt > 0 /\ allowed)
                           => (r.position.x > Px(96) /\ r.position.y = Px(96))

\* tests::player_moves_right: after one update of 0.5 s along (1,0) from
\* (96,96) the player stands at (176,96)
C18_Witness ==
    /\ ticks = 1
    /\ branch = "dir_moved"
    /\ player.position = Pt(Px(176), Px(96))

\* a headless update has been rejected by the map
HeadlessRejected == branch = "dir_rejected"

(***************************************************************************)
(* Input in the middle of a step (SpecFine)                                *)
(***************************************************************************)
\* the lattice point nearest to pos: grid_pos of Player.update
NearestLattice(pos) == Pt(RoundTile(pos.x) * TILE_SIZE, RoundTile(pos.y) * TILE_SIZE)

\* the player is stepping and 1 px or more from the nearest lattice point
MidStep ==
    /\ Playing
    /\ player.moving
    /\ MagSq(player.position, NearestLattice(player.position)) >= Px(1) * Px(1)

\* the lattice point the current step started from: one tile behind the target
StepOrigin ==
    Pt(player.target.x - Sign(player.target.x - player.position.x) * TILE_SIZE,
       player.target.y - Sign(player.target.y - player.position.y) * TILE_SIZE)

\* a key is held whose direction lies on the other axis than the current step
CrossAxis(keys) ==
    /\ keys # {}
    /\ \/ player.target.y = player.position.y /\ Direction(FirstKey(keys))[1] = 0
       \/ player.target.x = player.position.x /\ Direction(FirstKey(keys))[2] = 0

\* C19: when the player is stepping, 1 px or more from the nearest lattice
\* point, and a key of the other axis is held, Player.update puts the player
\* back on a lattice point (the nearest one, or the one the step started from)
\* with moving = false.
C19_MidStepReversal ==
    MidStep =>
        \A keys \in KeySets, dt \in DtSet :
            CrossAxis(keys) =>
                \A r \in {PlayerUpdate(player, keys, dt)} :
                    /\ r.position \in {NearestLattice(player.position), StepOrigin}
                    /\ ~r.moving

\* Player.update never takes the branch that snaps a stepping player back to
\* the lattice on a change of direction
ReversalNeverTaken ==
    /\ branch # "reversal"
    /\ Playing => \A keys \in KeySets, dt \in DtSet :
                      PlayerUpdate(player, keys, dt).branch # "reversal"

Sampled ==
    /\ Playing
    /\ \/ ~player.moving
       \/ MagSq(player.position, NearestLattice(player.position)) < Px(1) * Px(1)

\* every non-empty set of direction keys, several keys held at once included
HeldKeys == (SUBSET MoveKeys) \ {{}}

\* b is the lattice point one cell from the lattice point a along one axis
AxisNeighbour(a, b) ==
    \/ Abs(b.x - a.x) = TILE_SIZE /\ b.y = a.y
    \/ Abs(b.y - a.y) = TILE_SIZE /\ b.x = a.x

\* C21: when the keys are sampled and one or several direction keys are held,
\* the direction is that of the first held key in the order Left, Right, Up,
\* Down; the candidate is the lattice point of round(position/32) plus one
\* cell in that direction, never a diagonal neighbour; and the tick is the
\* motion step of a player that has that candidate as its target with
\* moving = true, so that the candidate is the target after the tick.
C21_AxisPriority ==
    Sampled =>
        \A keys \in HeldKeys :
            \A cand \in {AdjacentPoint(player.position, Direction(FirstKey(keys)))} :
                /\ AxisNeighbour(NearestLattice(player.position), cand)
                /\ \A dt \in DtCoarse :
                       \A r \in {PlayerUpdate(player, keys, dt)} :
                           /\ r.target = cand
                           /\ r = MoveStep([position |-> player.position, target |-> cand,
                                            moving |-> TRUE,
                                            facing |-> Direction(FirstKey(keys))], dt)

\* the player has begun a step to the left or to the right and is still within
\* 1 px of the lattice point; a tick with Up and Down held commits the cell
\* above as the new target, a tick with all four keys held the cell to the left
C21_Witness ==
    /\ Sampled
    /\ player.moving
    /\ branch = "inc_ok"
    /\ player.target.y = player.position.y
    /\ PlayerUpdate(player, {"Up", "Down"}, 0).target
           = AdjacentPoint(player.position, <<0, -1>>)
    /\ PlayerUpdate(player, {"Up", "Down"}, 0).moving
    /\ PlayerUpdate(player, MoveKeys, 0).target = AdjacentPoint(player.position, <<-1, 0>>)

(***************************************************************************)
(* Rejected steps (SpecFine)                                               *)
(***************************************************************************)
\* the branches of Player.update in which the map rejected the move
RejectedBranches == {"snap_blocked", "inc_blocked", "snap_blocked+snap", "inc_blocked+snap"}

\* C22: in every tick in which is_movement_allowed rejects the move, be it the
\* completing snap to the target or the incremental move, the player ends the
\* tick with moving = false and no nearer to the target than it began.
C22_RejectedStep ==
    Playing =>
        \A keys \in KeySets, dt \in DtSet :
            \A r \in {PlayerUpdate(player, keys, dt)} :
                r.branch \in RejectedBranches =>
                    /\ ~r.moving
                    /\ MagSq(r.position, r.target) >= MagSq(player.position, r.target)

\* the player is half a tile into a step from the upper bed tile (2,11) to the
\* floor tile (3,11), 0.8 px below the row; the snap to the target is rejected
\* in a tick of 0.2 s, and the tick ends with the player on the target
RejectedYetArrived ==
    /\ Playing
    /\ player.moving
    /\ player.position = Pt(Px(80), Px(352) + 80)
    /\ player.target = Pt(Px(96), Px(352))
    /\ ~HitboxMoveAllowed(player.position, player.target)
    /\ PlayerUpdate(player, {}, 200).branch = "snap_blocked+snap"
    /\ PlayerUpdate(player, {}, 200).position = player.target

(***************************************************************************)
(* The segment of a step (SpecFine)                                        *)
(***************************************************************************)
\* pos lies, to within 0.5 px, on the axis-aligned segment that ends at the
\* lattice point tgt and begins one tile before it
OnSegment(pos, tgt) ==
    \/ Abs(pos.y - tgt.y) <= HalfPx /\ Abs(pos.x - tgt.x) <= TILE_SIZE + HalfPx
    \/ Abs(pos.x - tgt.x) <= HalfPx /\ Abs(pos.y - tgt.y) <= TILE_SIZE + HalfPx

\* C23: after every Player.update, a player that is moving stands on the
\* straight axis-aligned segment between the last grid-aligned point and its
\* target: one coordinate is the target's, the other lies between the origin
\* cell's and the target's (each to within 0.5 px).
C23_SteppingSegment ==
    (Playing /\ player.moving) => OnSegment(player.position, player.target)

\* a target has been committed to the right while the player was 0.8 px below
\* the row of the lattice point, and the player moves along a line 0.8 px
\* below the row of its target
OffSegment ==
    /\ Playing
    /\ player.moving
    /\ player.position = Pt(Px(80), Px(352) + 80)
    /\ player.target = Pt(Px(96), Px(352))

(***************************************************************************)
(* The facing of the player (Spec)                                         *)
(***************************************************************************)
UnitVectors == {<<-1, 0>>, <<1, 0>>, <<0, -1>>, <<0, 1>>}

\* C24: the facing is always one of (-1,0), (1,0), (0,-1), (0,1); a tick that
\* samples the keys with a direction key held sets it to the direction of the
\* chosen key, whether the step is then accepted or rejected, and every other
\* tick leaves it as it was.
C24_Facing ==
    /\ player.facing \in UnitVectors
    /\ Playing =>
           \A keys \in SUBSET MoveKeys, dt \in DtSet :
               PlayerUpdate(player, keys, dt).facing
                   = IF Sampled /\ keys # {}
                     THEN Direction(FirstKey(keys))
                     ELSE player.facing

\* a step to the left has just been rejected, and the player faces left
C24_Witness ==
    /\ Playing
    /\ branch \in RejectedBranches
    /\ ~player.moving
    /\ player.target.x < player.position.x
    /\ player.facing = <<-1, 0>>

(***************************************************************************)
(* The layered rule of the bed nook                                        *)
(***************************************************************************)

\* the transition of the move passes the rules of the nook: (a) both ends on
\* the bed or both off it, (b) onto the bed westward into a bed-door tile,
\* (c) off the bed eastward out of a bed-door tile, but not northward out of
\* the topmost bed row
NookTransition ==
    \/ FromBed = ToBed
    \/ ~FromBed /\ ToBed /\ args.to_x < args.from_x /\ ToBedDoor
    \/ /\ FromBed /\ ~ToBed /\ args.to_x > args.from_x /\ FromBedDoor
       /\ ~(args.to_y < args.from_y /\ FromTopBedRow)

\* C25: is_movement_allowed returns true if and only if
\* is_rect_free(to_x, to_y, w, h) holds and the transition is (a) bed to bed
\* or non-bed to non-bed, or (b) non-bed to bed with to_x < from_x and to a
\* bed-door tile, or (c) bed to non-bed with to_x > from_x, from a bed-door
\* tile, and not (to_y < from_y with from in the topmost bed row).
C25_LayeredNookRule ==
    (args.kind = "move" /\ ret.fn = "is_movement_allowed") =>
        ret.result = (is_rect_free(Room, args.to_x, args.to_y, args.w, args.h)
                      /\ NookTransition)

\* a move east and north out of the bed-door tile of the topmost bed row, to
\* a free non-bed cell, was rejected
C25_Witness ==
    /\ MoveCalled /\ FromBedDoor /\ FromTopBedRow /\ ~ToBed
    /\ args.to_x > args.from_x /\ args.to_y < args.from_y
    /\ ret.result = FALSE

(***************************************************************************)
(* The rectangle query away from open doors                                *)
(***************************************************************************)

\* the inclusive tile range floor(x/32)..floor((x+w)/32) by
\* floor(y/32)..floor((y+h)/32) of the rectangle of the call
RangeOfCall ==
    ((args.x \div TILE_SIZE)..((args.x + args.w) \div TILE_SIZE))
        \X ((args.y \div TILE_SIZE)..((args.y + args.h) \div TILE_SIZE))

\* is_rect_free was called with non-negative x and y and a tile range that is
\* inside the grid and holds no open door
RectCalledOffDoors ==
    /\ RectCalled /\ args.x >= 0 /\ args.y >= 0
    /\ \A c \in RangeOfCall :
           /\ c[1] < Width(Room) /\ c[2] < Height(Room)
           /\ Room[c[2] + 1][c[1] + 1] # "DoorOpen"

BlockingTiles == {"Wall", "DoorClosed", "Fwall", "Table"}

\* the right or the bottom edge of the rectangle of the call lies exactly on
\* a tile boundary, and only the tiles past that boundary are blocking
OnlyNextTileBlocks ==
    /\ \/ (args.x + args.w) % TILE_SIZE = 0 /\ args.w > 0
       \/ (args.y + args.h) % TILE_SIZE = 0 /\ args.h > 0
    /\ \E c \in RangeOfCall : Room[c[2] + 1][c[1] + 1] \in BlockingTiles
    /\ \A c \in RangeOfCall :
           Room[c[2] + 1][c[1] + 1] \in BlockingTiles
               => \/ c[1] * TILE_SIZE = args.x + args.w /\ args.w > 0
                  \/ c[2] * TILE_SIZE = args.y + args.h /\ args.h > 0

\* C26: for a rectangle with non-negative x, y whose inclusive tile range is
\* in bounds and holds no DoorOpen tile, is_rect_free returns true if and only
\* if no tile of the range is Wall, DoorClosed, Fwall or Table (Floor and Bed
\* never block); the range is inclusive, so a rectangle whose right or bottom
\* edge lies exactly on a tile boundary is blocked by the next tile.
C26_RectReference ==
    RectCalledOffDoors =>
        /\ ret.result = (\A c \in RangeOfCall : Room[c[2] + 1][c[1] + 1] \notin BlockingTiles)
        /\ OnlyNextTileBlocks => ret.result = FALSE

\* is_rect_free has returned false for a rectangle that is blocked only by
\* the tiles past the boundary its right or bottom edge lies on
C26_Witness == RectCalledOffDoors /\ OnlyNextTileBlocks /\ ret.result = FALSE

\* is_rect_free has returned true for a rectangle with a bed tile in its range
C26_WitnessBed ==
    /\ RectCalledOffDoors /\ ret.result = TRUE
    /\ \E c \in RangeOfCall : Room[c[2] + 1][c[1] + 1] = "Bed"

(***************************************************************************)
(* The frame of an open door                                               *)
(***************************************************************************)

\* the open doors of the current room
OpenDoors ==
    {c \in (0..(Width(Room) - 1)) \X (0..(Height(Room) - 1)) :
        Room[c[2] + 1][c[1] + 1] = "DoorOpen"}

\* rectangles that start inside the tile c: at its corner, inside a frame
\* strip, just past one and in the middle of the tile; a pixel, a quarter of
\* a tile and the hitbox of the player in size
DoorRects(c) ==
    {[x |-> c[1] * TILE_SIZE + dx, y |-> c[2] * TILE_SIZE + dy, w |-> w, h |-> h] :
        dx \in {0, Px(1), Px(4), Px(16)}, dy \in {0, Px(1), Px(4), Px(16)},
        w \in {Px(1), Px(8), hitbox_size}, h \in {Px(1), Px(8), hitbox_size}}

RangeOf(r) ==
    ((r.x \div TILE_SIZE)..((r.x + r.w) \div TILE_SIZE))
        \X ((r.y \div TILE_SIZE)..((r.y + r.h) \div TILE_SIZE))

\* the tiles r overlaps besides the door c are inside the grid and do not block
OthersFree(c, r) ==
    \A d \in RangeOf(r) \ {c} :
        /\ d[1] < Width(Room) /\ d[2] < Height(Room)
        /\ Room[d[2] + 1][d[1] + 1] \in {"Floor", "Bed"}

\* the rectangle r and the rectangle (sx, sy, sw, sh) have area in common
Overlaps(r, sx, sy, sw, sh) ==
    r.x < sx + sw /\ r.x + r.w > sx /\ r.y < sy + sh /\ r.y + r.h > sy

\* the number of solid tiles among the cells ds that lie inside the grid
SolidCount(ds) ==
    Cardinality({d \in ds : /\ d[1] >= 0 /\ d[1] < Width(Room)
                            /\ d[2] >= 0 /\ d[2] < Height(Room)
                            /\ Room[d[2] + 1][d[1] + 1] \in BlockingTiles})

\* the door c lies in a horizontal run of wall: it has at least as many solid
\* neighbours to its left and right as above and below
HorizontalDoor(c) ==
    SolidCount({<<c[1] - 1, c[2]>>, <<c[1] + 1, c[2]>>})
        >= SolidCount({<<c[1], c[2] - 1>>, <<c[1], c[2] + 1>>})

\* r overlaps one of the two strips of 8% of the tile along the edges of the
\* tile c that are perpendicular to the orientation of the door: the left and
\* right edges of a horizontal door, the top and bottom edges of a vertical one
OverlapsJambs(c, r) ==
    LET door_left == c[1] * TILE_SIZE
        door_top == c[2] * TILE_SIZE
    IN  IF HorizontalDoor(c)
        THEN \/ Overlaps(r, door_left, door_top, frame_thickness, TILE_SIZE)
             \/ Overlaps(r, door_left + TILE_SIZE - frame_thickness, door_top,
                         frame_thickness, TILE_SIZE)
        ELSE \/ Overlaps(r, door_left, door_top, TILE_SIZE, frame_thickness)
             \/ Overlaps(r, door_left, door_top + TILE_SIZE - frame_thickness,
                         TILE_SIZE, frame_thickness)

\* C27: for a rectangle whose other overlapped tiles do not block, an
\* overlapped DoorOpen tile blocks if and only if the rectangle overlaps one
\* of the two frame strips of 8% of the tile size along the pair of tile edges
\* perpendicular to the orientation of the door (horizontal when it has at
\* least as many solid left/right neighbours as up/down ones); a rectangle
\* inside the door tile that is clear of both strips is free.
C27_OpenDoorFrame ==
    \A c \in OpenDoors : \A r \in DoorRects(c) :
        OthersFree(c, r) =>
            is_rect_free(Room, r.x, r.y, r.w, r.h) = ~OverlapsJambs(c, r)

\* what is_rect_free computes instead: the strips of a horizontal door lie
\* along its top and bottom edges, across the passage through the door
OpenDoorFrameAcross ==
    \A c \in OpenDoors : \A r \in DoorRects(c) :
        (OthersFree(c, r) /\ HorizontalDoor(c)) =>
            is_rect_free(Room, r.x, r.y, r.w, r.h)
                = ~(\/ Overlaps(r, c[1] * TILE_SIZE, c[2] * TILE_SIZE,
                                TILE_SIZE, frame_thickness)
                    \/ Overlaps(r, c[1] * TILE_SIZE,
                                (c[2] + 1) * TILE_SIZE - frame_thickness,
                                TILE_SIZE, frame_thickness))

(***************************************************************************)
(* The probe of a point                                                    *)
(***************************************************************************)

\* points of the first rows and columns of the room: 0.3 px past a tile
\* boundary, in the middle of a tile and 0.3 px before the next boundary
PointCoords == {k * TILE_SIZE + d : k \in 0..2, d \in {30, Px(16), TILE_SIZE - 30}}

\* half of the side of the probe, 0.5 px
half_probe == Px(1) \div 2

\* C28: is_solid_at_point(x, y) is true exactly when the 1x1 rectangle
\* centered at (x, y), that is (x - 0.5, y - 0.5, 1, 1), is not free
\* according to is_rect_free.
C28_CenteredProbe ==
    \A x \in PointCoords, y \in PointCoords :
        Map_is_solid_at_point(x, y)
            = ~Map_is_rect_free(x - half_probe, y - half_probe, Px(1), Px(1))

\* what is_solid_at_point computes instead: the 1x1 rectangle whose top-left
\* corner is (x, y)
ProbeFromCorner ==
    \A x \in PointCoords, y \in PointCoords :
        Map_is_solid_at_point(x, y) = ~Map_is_rect_free(x, y, Px(1), Px(1))

(***************************************************************************)
(* The enemy in the column of the player                                   *)
(***************************************************************************)

\* C29: an enemy that is not moving and whose x equals the player's x takes
\* the vertical target (x, y + sign(player.y - y) * 32) when the y values
\* differ, and takes no target, stays idle and keeps its position when it
\* stands on the player.
C29_VerticalFallback ==
    \A i \in DOMAIN enemies :
        (~enemies[i].moving /\ player.position.x = enemies[i].position.x) =>
            \A dt \in EnemyDt :
                \A r \in {Enemy_update(enemies[i], dt, player.position)} :
                    IF player.position.y # enemies[i].position.y
                    THEN r.target = Pt(enemies[i].position.x,
                                       enemies[i].position.y
                                           + Sign(player.position.y - enemies[i].position.y) * Px(32))
                    ELSE r = enemies[i]

\* what Enemy::update does instead: signum gives 1.0 for a delta of 0.0, so
\* an idle enemy in the column of the player takes the target one step to
\* its right
ColumnTargetsRight ==
    \A i \in DOMAIN enemies :
        (~enemies[i].moving /\ player.position.x = enemies[i].position.x) =>
            \A dt \in EnemyDt :
                Enemy_update(enemies[i], dt, player.position).target
                    = Pt(enemies[i].position.x + Px(32), enemies[i].position.y)

(***************************************************************************)
(* The blocked step of the enemy                                           *)
(***************************************************************************)

\* the distance from the position of e to its target, which lies on one axis
\* of it (EnemyAxisAligned)
Remaining(e) == Abs(e.target.x - e.position.x) + Abs(e.target.y - e.position.y)

\* the position the enemy e, moving toward its target, tries to take in a
\* tick of dt: the target when the step covers the remaining distance, the
\* interpolated position otherwise
Candidate(e, dt) ==
    IF Remaining(e) <= EnemyStep(dt) THEN e.target
    ELSE Pt(e.position.x + Sign(e.target.x - e.position.x) * EnemyStep(dt),
            e.position.y + Sign(e.target.y - e.position.y) * EnemyStep(dt))

\* in every tick where the map reports the probe of the candidate position
\* as solid, the enemy keeps its position and ends the tick not moving, and
\* the tick after it takes a new target one grid step from that position
BlockedHalts ==
    \A i \in DOMAIN enemies : \A dt \in EnemyDt :
        \A t \in {Retarget(enemies[i], player.position)} :
            (t.moving /\ ~ProbeFree(Candidate(t, dt))) =>
                \A r \in {Enemy_update(enemies[i], dt, player.position)} :
                    /\ r.position = enemies[i].position
                    /\ ~r.moving
                    /\ \A dt2 \in EnemyDt :
                           \A u \in {Enemy_update(r, dt2, player.position)} :
                               Abs(u.target.x - r.position.x)
                                   + Abs(u.target.y - r.position.y) = grid_size

\* a step that changes an enemy leaves the rooms of the map, the cursor of the
\* map and the player as they are
EnemyLeavesMapAndPlayer ==
    (enemies' # enemies /\ ret'.fn = "Enemy_update")
        => (rooms' = rooms /\ current' = current /\ player' = player)

\* C30: in any Enemy.update tick where is_solid_at_point at the candidate
\* position + (16, 16) is true, for the completing snap or the interpolated
\* move, the position of the enemy is unchanged and moving becomes false, so
\* that the next tick picks a direction again; Enemy.update never changes the
\* map or the player.
C30_BlockedStep == []BlockedHalts /\ [][EnemyLeavesMapAndPlayer]_vars

\* an update has ended with the enemy stopped short of a target that the
\* step of the tick covered: the completing snap was blocked
C30_Witness ==
    /\ ret.fn = "Enemy_update"
    /\ \E i \in DOMAIN enemies :
           /\ ~enemies[i].moving /\ Remaining(enemies[i]) > 0
           /\ Remaining(enemies[i]) <= EnemyStep(ret.dt)
           /\ ~ProbeFree(enemies[i].target)

\* an update has ended with the enemy stopped short of a target farther away
\* than the step of the tick: the interpolated move was blocked
C30_WitnessInterpolated ==
    /\ ret.fn = "Enemy_update"
    /\ \E i \in DOMAIN enemies :
           /\ ~enemies[i].moving
           /\ Remaining(enemies[i]) > EnemyStep(ret.dt)
           /\ ~ProbeFree(Candidate(enemies[i], ret.dt))

(***************************************************************************)
(* The tile grid over the whole game                                       *)
(***************************************************************************)

\* the cells of the grid `tiles`
CellsOf(tiles) == (0..(Width(tiles) - 1)) \X (0..(Height(tiles) - 1))

\* the map holds the one room of Map::new with its dimensions, its door cells
\* and every other tile as constructed
GridAsConstructed ==
    /\ Len(rooms) = Len(Map_new)
    /\ \A i \in DOMAIN rooms :
           /\ Height(rooms[i]) = Height(Map_new[i])
           /\ \A row \in DOMAIN rooms[i] : Len(rooms[i][row]) = Len(Map_new[i][row])
           /\ \A c \in CellsOf(rooms[i]) :
                  IF TileAt(Map_new[i], c[1], c[2]) \in Doors
                  THEN TileAt(rooms[i], c[1], c[2]) \in Doors
                  ELSE TileAt(rooms[i], c[1], c[2]) = TileAt(Map_new[i], c[1], c[2])

\* a step that changes the grid is the interact key in Playing with the
\* options menu hidden, and changes the one cell interact_tile was called on
GridChangesByInteractKey ==
    rooms' # rooms =>
        /\ state = "Playing" /\ ~options.visible
        /\ player' = player /\ enemies' = enemies
        /\ ret'.fn = "interact_tile"
        /\ \A c \in CellsOf(rooms[current + 1]) :
               TileAt(rooms'[current + 1], c[1], c[2]) # TileAt(rooms[current + 1], c[1], c[2])
                   => c = <<ret'.tx, ret'.ty>>

\* C31: the tile grid changes only through door toggling: the frames of
\* Game::update (Player.update, Enemy.update) leave every tile unchanged; a
\* change is made by the interact (Z) key event in Playing with the options
\* menu hidden, on the one cell interact_tile is called on and between
\* DoorClosed and DoorOpen; the dimensions, the non-door tiles and the set of
\* door cells stay as constructed.
C31_GridFrame == []GridAsConstructed /\ [][GridChangesByInteractKey]_vars

\* the interact key has opened the door in Playing, with the options menu
\* hidden and after frames of Game::update have run
C31_Witness ==
    /\ state = "Playing" /\ ~options.visible
    /\ ret.fn = "interact_tile" /\ ret.result = TRUE
    /\ TileAt(Room, MapWidth \div 2, 0) = "DoorOpen"
    /\ ticks > 0

(***************************************************************************)
(* The bed tiles and the grid                                              *)
(***************************************************************************)

\* points inside the cell c: its corner, the corner of the hitbox of a player
\* standing on it, its middle
PointsIn(c) ==
    {Pt(c[1] * TILE_SIZE + d, c[2] * TILE_SIZE + d) : d \in {0, hitbox_offset, TILE_SIZE \div 2}}

\* the classification of the points of the cell c agrees with the tile of c
BedMatchesTile(c) ==
    \A pt \in PointsIn(c) :
        /\ is_on_top_bed_tile(Room, pt.x, pt.y) = (TileAt(Room, c[1], c[2]) = "Bed")
        /\ is_bed_door_tile(Room, pt.x, pt.y)
               => (TileAt(Room, c[1], c[2]) = "Bed" /\ c[1] = 2)

\* C32: for every room built by GridRoom::new(width, height) and every point
\* inside the grid, is_on_top_bed_tile is true if and only if the tile that
\* contains the point is a Bed tile, and is_bed_door_tile is true only for
\* Bed tiles in the right column of the nook.
C32_BedClassification == \A c \in CellsOf(Room) : BedMatchesTile(c)

\* the classification agrees with the grid in the rooms that are large enough
\* for GridRoom::new to place the bed (width > 3 and height > 4)
BedClassificationWithNook ==
    (Width(Room) > 3 /\ Height(Room) > 4) => \A c \in CellsOf(Room) : BedMatchesTile(c)

(***************************************************************************)
(* The entrance of the bed nook over whole runs                            *)
(***************************************************************************)

\* the tile that contains the corner of the hitbox of a player at pos
CornerCell(pos) == <<FloorTile(pos.x + hitbox_offset), FloorTile(pos.y + hitbox_offset)>>

CornerOnBed(pos) == TileAt(Room, CornerCell(pos)[1], CornerCell(pos)[2]) = "Bed"

\* a frame that takes the corner of the hitbox onto the bed or off it takes it
\* between column 2 (the bed-door column) and column 3 of one row
ThroughTheEntrance ==
    (CornerOnBed(player.position) # CornerOnBed(player'.position)) =>
        \E bed \in {IF CornerOnBed(player.position) THEN CornerCell(player.position)
                     ELSE CornerCell(player'.position)},
           off \in {IF CornerOnBed(player.position) THEN CornerCell(player'.position)
                     ELSE CornerCell(player.position)} :
            bed[1] = 2 /\ off[1] = 3 /\ bed[2] = off[2]

\* C33: in the default room, across any sequence of Player.update ticks,
\* whenever the tile containing the corner of the player's hitbox changes
\* between a Bed tile and a non-Bed tile, the change is between column 2 and
\* column 3 of the same row: the player never enters or leaves the bed
\* through its north, south or west side.
C33_SingleEntrance == [][ThroughTheEntrance]_vars

\* the player has left the bed eastward and stands on the floor cell next to
\* the upper bed-door tile
C33_Witness ==
    /\ Playing
    /\ CornerCell(player.position) = <<3, MapHeight - 4>>
    /\ ~player.moving /\ branch = "snap_ok"
    /\ player.facing = <<1, 0>>

(***************************************************************************)
(* Adding a room to the map                                                *)
(***************************************************************************)

\* add_room appends one room of those passed to it, returns the number of
\* rooms before the call, and leaves the cursor and the rooms there were
AddRoomAppends ==
    ret'.fn = "add_room" =>
        /\ ret'.result = Len(rooms)
        /\ Len(rooms') = Len(rooms) + 1
        /\ rooms'[Len(rooms) + 1] \in AddedRooms
        /\ \A i \in DOMAIN rooms : rooms'[i] = rooms[i]
        /\ current' = current

\* set_current called with the index add_room has just returned moves the
\* cursor to the room that was added
SetCurrentAfterAddRoom ==
    (ret.fn = "add_room" /\ ret'.fn = "set_current" /\ ret'.idx = ret.result) =>
        /\ current' = ret.result
        /\ rooms'[current' + 1] = rooms[Len(rooms)]

\* C34: add_room appends the room and returns its index, the number of rooms
\* before the call; it leaves the active index and the existing rooms
\* unchanged, and a following set_current with the returned index makes the
\* new room the current one, by which all queries are answered.
C34_AddRoom ==
    /\ [](ret.fn = "add_room" => Map_set_current(ret.result) = ret.result)
    /\ [][AddRoomAppends /\ SetCurrentAfterAddRoom]_vars

\* add_room has just added a second room, and the cursor is still on the first
C34_Witness ==
    /\ ret = [fn |-> "add_room", result |-> 1]
    /\ Len(rooms) = 2
    /\ current = 0

\* set_current has moved the cursor to the room that was added last, of a
\* size other than that of the first room
C34_WitnessSwitched ==
    /\ ret.fn = "set_current" /\ ret.idx = Len(rooms) - 1 /\ current = ret.idx
    /\ Len(rooms) = 2
    /\ Width(Room) # MapWidth

(***************************************************************************)
(* The end of a step once the keys are released                            *)
(***************************************************************************)

\* the fields of the player in the result r of Player::update
AsPlayer(r) ==
    [position |-> r.position, target |-> r.target, moving |-> r.moving, facing |-> r.facing]

\* the player p after frames of dt with no direction key held, n at most and
\* as long as it is moving
RECURSIVE Released(_, _, _)
Released(p, dt, n) ==
    IF n = 0 \/ ~p.moving THEN p
    ELSE Released(AsPlayer(PlayerUpdate(p, {}, dt)), dt, n - 1)

\* ceil(32 / (speed * dt)) + 1
TickBound(dt) == (TILE_SIZE + Step(dt) - 1) \div Step(dt) + 1

\* C35: when no direction key is held and every tick has the same dt > 0, a
\* moving player is idle after at most ceil(32 / (speed * dt)) + 1 further
\* ticks of Player.update, and then stays idle with its position unchanged.
C35_StepTerminates ==
    (Playing /\ player.moving) =>
        \A dt \in DtSet \ {0} :
            \A q \in {Released(player, dt, TickBound(dt))} :
                /\ ~q.moving
                /\ AsPlayer(PlayerUpdate(q, {}, dt)) = q

\* the step of a moving player that is a tile or less from its target ends
\* within the bound
StepTerminatesWithinATile ==
    (Playing /\ player.moving
     /\ MagSq(player.position, player.target) <= TILE_SIZE * TILE_SIZE) =>
        \A dt \in DtSet \ {0} :
            \A q \in {Released(player, dt, TickBound(dt))} :
                /\ ~q.moving
                /\ AsPlayer(PlayerUpdate(q, {}, dt)) = q

(***************************************************************************)
(* The way out of the bed and back (SpecSpawnWalk)                         *)
(***************************************************************************)

\* the direction key held by the user
Holding(key) == [kind |-> "hold", key |-> key]

\* the spawn point of Player::new, on the bed tile (2,12), and the lattice
\* point of the floor cell (3,12) east of it
SpawnPoint == Player_new.position

FloorPoint == Pt(SpawnPoint.x + TILE_SIZE, SpawnPoint.y)

\* the player is at the lattice point pt to within the pixel at which
\* Player::update takes it to be at a grid position
NearPoint(pos, pt) ==
    /\ pos.x - pt.x \in -Px(1)..Px(1)
    /\ pos.y - pt.y \in -Px(1)..Px(1)
    /\ MagSq(pos, pt) < Px(1) * Px(1)

AtFloorPoint == \E pos \in {player.position} : NearPoint(pos, FloorPoint)

AtSpawnPoint == \E pos \in {player.position} : NearPoint(pos, SpawnPoint)

\* the point the user holding `key` is heading for
Goal(key) == IF key = "Right" THEN FloorPoint ELSE SpawnPoint

\* Game::new taken into Playing, the user holding Right
InitSpawnWalk ==
    /\ rooms = Map_new
    /\ current = 0
    /\ player = Player_new /\ branch = "new"
    /\ ticks = 0
    /\ state = "Playing"
    /\ intro_index = IntroLines
    /\ intro_timer = 0
    /\ ret = NoCall
    /\ args = Holding("Right")
    /\ enemies = <<>>
    /\ options = Options_new
    /\ limiter = 0
    /\ running = TRUE

\* the delta times of the walk, in ms: steps of half a tile, of a tile, and of
\* 0.8 and 0.48 px less than a tile
WalkDt == {100, 195, 197, 200}

\* a frame of dt > 0 with `key` held, as long as the player is not at the
\* point the user is heading for
HoldKey(key) ==
    /\ args = Holding(key)
    /\ player.position # Goal(key)
    /\ \E dt \in WalkDt : Update({key}, dt)
    /\ UNCHANGED ticks

\* with the player at the floor cell the user may let go of Right and hold
\* Left
TurnBack ==
    /\ args = Holding("Right")
    /\ AtFloorPoint
    /\ args' = Holding("Left")
    /\ UNCHANGED <<rooms, current, player, branch, ticks, state, intro_index, intro_timer, ret,
                   enemies, options, limiter, running>>

HoldRight == HoldKey("Right")

HoldLeft == HoldKey("Left")

NextSpawnWalk ==
    \/ HoldRight
    \/ TurnBack
    \/ HoldLeft

\* From the spawn point Right is held in every frame, and Left from some
\* frame at which the player is at the floor cell east of the bed; the frames
\* take any delta time of WalkDt and keep coming.
SpecSpawnWalk ==
    /\ InitSpawnWalk /\ [][NextSpawnWalk]_vars
    /\ WF_vars(NextSpawnWalk)

\* C36: the player is not trapped at spawn: from Player::new at (64,384) on
\* the bed tile (2,12), holding Right with dt > 0 in every tick eventually
\* brings the player to the floor cell (3,12) at position (96,384), and from
\* there holding Left brings it back onto the bed at (64,384).
\* A frame that leaves the player within 1 px of (96,384) lets the next one
\* sample the held key and commit the cell after it, so that the player goes
\* past (96,384) without being at it.
C36_ExactArrival ==
    /\ (args = Holding("Right") /\ player = Player_new) ~> (player.position = FloorPoint)
    /\ (args = Holding("Left") /\ player.position = FloorPoint)
           ~> (player.position = SpawnPoint)

\* What the walk does reach: holding Right brings the player off the bed to
\* within 1 px of (96,384), and from there holding Left brings it back onto
\* the bed to within 1 px of (64,384).
NotTrappedAtSpawn ==
    /\ (args = Holding("Right") /\ player = Player_new)
           ~> (AtFloorPoint /\ ~CornerOnBed(player.position))
    /\ (args = Holding("Left") /\ AtFloorPoint)
           ~> (AtSpawnPoint /\ CornerOnBed(player.position))

\* the player is back at the spawn point, facing left, after the walk to the
\* floor cell
BackOnTheBed ==
    /\ args = Holding("Left")
    /\ AtSpawnPoint
    /\ player.facing = <<-1, 0>>

(***************************************************************************)
(* The screens of the game (Spec)                                          *)
(***************************************************************************)

\* a change of the game state goes from Title to Intro or, with the last line
\* of the intro passed, from Intro to Playing
ForwardChange ==
    \/ state = "Title" /\ state' = "Intro"
    \/ state = "Intro" /\ state' = "Playing" /\ intro_index' >= IntroLines

\* a key event changes the game state only as Return or Space in Title and as
\* Z in Intro
KeyChangesState ==
    \A code \in KeyCodes :
        KeyDown(code) => \/ state = "Title" /\ code \in {"Return", "Space"}
                         \/ state = "Intro" /\ code = "Z"

\* a frame changes the game state only in Intro, when the timer expires
FrameChangesState ==
    \A keys \in KeySets, dt \in DtCoarse :
        Tick(keys, dt) => state = "Intro" /\ intro_timer + dt >= auto_advance_ms

ScreenStep ==
    /\ state' # state => ForwardChange /\ KeyChangesState /\ FrameChangesState
    /\ (player' # player \/ branch' # branch \/ enemies' # enemies)
           => state = "Playing" /\ state' = "Playing"

\* C37: the game state only moves forward: it starts in Title, changes to
\* Intro only on a Return or Space key in Title, changes to Playing only when
\* the intro finishes (its last line passed by a Z press or by an expiry of
\* the timer), and never leaves Playing or goes backward; Player.update and
\* Enemy.update run only in Playing.
C37_ForwardOnly == state = "Title" /\ [][ScreenStep]_vars

\* Playing has been reached through Title and Intro and a frame has moved the
\* player
C37_Witness ==
    /\ state = "Playing"
    /\ intro_index = IntroLines
    /\ player.position # Player_new.position

(***************************************************************************)
(* The options menu pauses the game (SpecMenu)                             *)
(***************************************************************************)

\* a step taken with the options menu shown leaves the game as it is
PausedStep ==
    options.visible =>
        /\ player' = player /\ branch' = branch
        /\ enemies' = enemies
        /\ intro_index' = intro_index /\ intro_timer' = intro_timer
        /\ state' = state
        /\ rooms' = rooms /\ current' = current

\* C38: the options menu pauses the game: while options.visible is true,
\* Game::update changes neither the player, the enemies, the intro nor the
\* game state, and the key events are consumed by the menu, so that no door
\* is toggled and no Title or Intro transition happens until the menu is
\* hidden again.
C38_MenuPauses == [][PausedStep]_vars

\* in Playing the menu is shown on its GBA refresh rate entry, the limiter
\* has accumulated frame time since the entry was switched on, and the
\* player is where it was before the frames
C38_Witness ==
    /\ options.visible /\ options.view = "Video" /\ options.selected = 3
    /\ options.gba_refresh_rate /\ limiter > 0
    /\ state = "Playing" /\ ticks = MenuTicks
    /\ player = AtDoorstep

\* the menu is shown over the intro after frames that left its timer alone
C38_WitnessIntro ==
    /\ options.visible
    /\ state = "Intro" /\ intro_index = 1 /\ intro_timer = 0
    /\ ticks = MenuTicks

(***************************************************************************)
(* The cursor of the options menu (SpecMenu)                               *)
(***************************************************************************)

\* the cursor of the menu o is on an entry of its view and, in Video, within
\* the window of max_visible entries that starts at scroll_offset
CursorInRange(o) ==
    IF o.view = "Main"
    THEN o.selected \in 0..last_main
    ELSE /\ o.selected \in 0..(total_options - 1)
         /\ o.scroll_offset <= o.selected
         /\ o.selected <= o.scroll_offset + (max_visible - 1)
         /\ o.scroll_offset <= total_options - max_visible

\* the outcome o of a call on the menu `before` has the cursor in range, and
\* at the top if the call has changed the view
CursorKept(before, o) ==
    /\ CursorInRange(o)
    /\ o.view # before.view => o.selected = 0 /\ o.scroll_offset = 0

\* C39: the cursor of the options menu: after any sequence of toggle and
\* handle_key calls, selected is in 0..=2 in the Main view and in 0..=4 in the
\* Video view, and in Video scroll_offset <= selected <= scroll_offset + 2
\* with scroll_offset <= 2; every change of view and every toggle resets
\* selected and scroll_offset to 0; handle_key changes nothing when the menu
\* is not visible.
C39_CursorInvariant ==
    /\ CursorInRange(options)
    /\ \A t \in {Options_toggle(options)} :
           /\ CursorKept(options, t)
           /\ t.visible = ~options.visible
           /\ t.selected = 0 /\ t.scroll_offset = 0
    /\ \A key \in MenuKeyCodes :
           \A r \in {Options_handle_key(options, key)} :
               /\ CursorKept(options, r.options)
               /\ ~options.visible => r.options = options /\ r.action = "none"

\* the menu is shown in its Video view with the cursor on the last entry and
\* the window scrolled to the end
C39_Witness ==
    /\ options.visible /\ options.view = "Video"
    /\ options.selected = total_options - 1
    /\ options.scroll_offset = total_options - max_visible

\* the menu has been hidden by the C key in its Video view, the cursor off
\* the top
C39_WitnessHidden ==
    /\ ~options.visible /\ options.view = "Video"
    /\ options.selected = 3 /\ options.scroll_offset = 1

====
